---- MODULE Spec2Model ----
(***************************************************************************)
(* astroStatus: the void-of-course engine and the bisection routines of    *)
(* the event detectors.                                                    *)
(*                                                                         *)
(* Numbers.  Longitudes and speeds are integer degrees and degrees/day.    *)
(* Quantities the code derives by division (days to an aspect, projected   *)
(* longitudes) are exact fractions [n, d] with d > 0.  Julian days are     *)
(* fixed-point: one day is Day ticks, and a midpoint (low + high) / 2 is   *)
(* rounded down to a tick, as a double rounds it to its own resolution.    *)
(* null is the empty tuple <<>> and a present value x is <<x>>.            *)
(***************************************************************************)
EXTENDS Integers, Sequences, FiniteSets, TLC

VARIABLES
    vocIn,      \* arguments of the getVoidOfCourseStatus call
    vocOut,     \* its return value, or <<>>
    pc,         \* where the findVoidPeriods call stands
    call,       \* its arguments [jdStart, jdEnd, stepHours]
    oracle,     \* the ephemeris as sampled so far: cell -> sky
    nSamples,   \* number of getVoidStatus calls made
    backSampled,\* times sampled by findVoidStartFromOngoing
    periods,    \* findVoidPeriods: periods
    currentVoid,\* findVoidPeriods: currentVoid, null is <<>>
    prevJd,     \* findVoidPeriods: prevJd
    prevStatus, \* findVoidPeriods: prevStatus
    jd,         \* findVoidPeriods: the loop variable jd
    currStatus, \* findVoidPeriods: currStatus
    lastStatus, \* the value the last getVoidStatus call returned
    highJd,     \* findVoidStartFromOngoing: highJd
    lowJd,      \* findVoidStartFromOngoing: lowJd
    bis,        \* bisectVoidTransition: [jdA, jdB, low, high, i,
                \*   nonVoidToVoid] and the caller to return to
    result,     \* what findVoidPeriods returned or threw, or <<>>
    scan,       \* the frame of a findStations, findIngresses or
                \*   findLunarPhases call, or <<>>
    eclIn,      \* arguments of the checkEclipse call
    eclOut,     \* its return value once it returned: <<null>> or <<record>>
    signIn,     \* the position calcPlanet gave getPlanetStatus
    signOut,    \* what getPlanetStatus returned, or <<>>
    planetEvents,\* a findPlanetEvents call: its ephemeris, its two tasks
                \*   and its result, or <<>>
    push        \* the push-notify batch: schedule, clock, subscriptions,
                \*   sent log and what was broadcast; or the subscription
                \*   server, subscriptions.json and a broadcast in progress;
                \*   or <<>>

vocVars == <<vocIn, vocOut>>

voidVars == <<pc, call, oracle, nSamples, backSampled, periods, currentVoid,
              prevJd, prevStatus, jd, currStatus, lastStatus, highJd, lowJd,
              bis, result>>

\* the event scanners and the eclipse classifier
eventVars == <<scan, eclIn, eclOut, signIn, signOut, planetEvents, push>>

\* what the void engine never touches
nonVoidVars == <<vocIn, vocOut, scan, eclIn, eclOut, signIn, signOut,
                 planetEvents, push>>

vars == <<vocVars, voidVars, eventVars>>

----------------------------------------------------------------------------
(* JavaScript arithmetic                                                    *)

Abs(x) == IF x < 0 THEN -x ELSE x

\* a % m of JavaScript: the remainder takes the sign of the dividend
\* the number an absent field turns into under arithmetic; no longitude,
\* speed or sign of the model has this value
NaN == -1000000

\* a === b and a !== b on numbers: NaN is unequal to everything
StrictEqual(a, b) == a # NaN /\ b # NaN /\ a = b
StrictNotEqual(a, b) == ~StrictEqual(a, b)

JsRem(a, m) == IF a >= 0 THEN a % m ELSE -((-a) % m)

Q(n, d) == [n |-> n, d |-> d]
QInt(i) == Q(i, 1)
QAddInt(a, i) == Q(a.n + i * a.d, a.d)
QMulInt(a, i) == Q(a.n * i, a.d)
QDivInt(a, i) == Q(a.n, a.d * i)
QNeg(a) == Q(-a.n, a.d)
QSub(a, b) == Q(a.n * b.d - b.n * a.d, a.d * b.d)
QAbs(a) == Q(Abs(a.n), a.d)
QMin(a, b) == IF a.n * b.d <= b.n * a.d THEN a ELSE b
QRem(a, m) == Q(JsRem(a.n, m * a.d), a.d)
QLe(a, b) == a.n * b.d <= b.n * a.d
QLt(a, b) == a.n * b.d < b.n * a.d
QEq(a, b) == a.n * b.d = b.n * a.d
QGtInt(a, i) == a.n > i * a.d
QGeInt(a, i) == a.n >= i * a.d
QLtInt(a, i) == a.n < i * a.d

\* Binary floating point.  A result of + or - is rounded to the nearest
\* number with SignificandBits significant bits, ties to even; % and
\* Math.abs are exact.  The double of the build has 53 bits, more than the
\* integers of this module hold; SignificandBits is the smallest width that
\* holds every half degree up to 360 + 180, as the double does.
SignificandBits == 11

\* the largest k with d * 2^k <= n, for n >= d > 0
RECURSIVE ExponentUp(_, _)
ExponentUp(n, d) == IF n < 2 * d THEN 0 ELSE 1 + ExponentUp(n, 2 * d)

\* the smallest k with n * 2^k >= d, for 0 < n < d
RECURSIVE ExponentDown(_, _)
ExponentDown(n, d) == IF n >= d THEN 0 ELSE 1 + ExponentDown(2 * n, d)

\* a / b rounded to the nearest integer, ties to even, for a >= 0 and b > 0
RoundHalfEven(a, b) ==
    LET f == a \div b
        r == a % b
    IN  IF 2 * r < b THEN f
        ELSE IF 2 * r > b THEN f + 1
        ELSE IF f % 2 = 0 THEN f ELSE f + 1

\* the floating-point number nearest to a >= 0
FlAbs(a) ==
    IF a.n = 0 THEN QInt(0)
    ELSE LET e == IF a.n >= a.d THEN ExponentUp(a.n, a.d)
                  ELSE -ExponentDown(a.n, a.d)
             shift == e - (SignificandBits - 1)
         IN  IF shift >= 0
             THEN Q(RoundHalfEven(a.n, a.d * 2 ^ shift) * 2 ^ shift, 1)
             ELSE Q(RoundHalfEven(a.n * 2 ^ (-shift), a.d), 2 ^ (-shift))

Fl(a) == IF a.n < 0 THEN QNeg(FlAbs(QNeg(a))) ELSE FlAbs(a)

None == <<>>
Some(x) == <<x>>
IsNull(o) == o = <<>>
Val(o) == o[1]

----------------------------------------------------------------------------
(* aspect.js: getVoidOfCourseStatus                                         *)

ASPECT_ANGLES == <<0, 60, 90, 120, 180>>

RefinePasses == 3

\* the two longitudes at which the Moon perfects `angle` to the planet
Targets(planet, angle) ==
    << JsRem(planet.longitude + angle, 360),
       JsRem(planet.longitude - angle + 360, 360) >>

\* travel the Moon needs to reach `target`, in its direction of motion
MoveNeeded(target, moonLon, moonSpeed) ==
    IF moonSpeed >= 0
    THEN QRem(QAddInt(target, 360 - moonLon), 360)
    ELSE QRem(QAddInt(QNeg(target), moonLon + 360), 360)

\* the body of `for (let iter = 0; iter < 3; iter++)`: a target more than
\* 180 degrees away `continue`s, which leaves estimatedDays as it was
RECURSIVE EstimateDays(_, _, _, _, _, _)
EstimateDays(iter, estimatedDays, baseTarget, planetSpeed, moonLon, moonSpeed) ==
    IF iter >= RefinePasses THEN estimatedDays
    ELSE LET target == QRem(QAddInt(QMulInt(estimatedDays, planetSpeed),
                                    baseTarget + 360), 360)
             moveNeeded == MoveNeeded(target, moonLon, moonSpeed)
         IN  IF QGtInt(moveNeeded, 180)
             THEN EstimateDays(iter + 1, estimatedDays, baseTarget,
                               planetSpeed, moonLon, moonSpeed)
             ELSE IF Abs(moonSpeed) = 0 THEN estimatedDays
             ELSE EstimateDays(iter + 1, QDivInt(moveNeeded, Abs(moonSpeed)),
                               baseTarget, planetSpeed, moonLon, moonSpeed)

\* ((moonAtAspect % 360) + 360) % 360
NormalizedMoon(moonLon, moonSpeed, estimatedDays) ==
    QRem(QAddInt(QRem(QAddInt(QMulInt(estimatedDays, moonSpeed), moonLon),
                      360), 360), 360)

\* estimatedDays > 0 && estimatedDays <= daysToExit
CompletesBeforeExit_strict(estimatedDays, daysToExit) ==
    QGtInt(estimatedDays, 0) /\ QLt(estimatedDays, daysToExit)

CompletesBeforeExit(estimatedDays, daysToExit) ==
    QGtInt(estimatedDays, 0) /\ QLe(estimatedDays, daysToExit)

\* normalizedMoon >= currentSignStart && normalizedMoon < currentSignEnd
StillInSign(moonLon, moonSpeed, estimatedDays) ==
    LET currentSignStart == (moonLon \div 30) * 30
        currentSignEnd == currentSignStart + 30
        normalizedMoon == NormalizedMoon(moonLon, moonSpeed, estimatedDays)
    IN  QGeInt(normalizedMoon, currentSignStart)
        /\ QLtInt(normalizedMoon, currentSignEnd)

\* one baseTarget of the innermost for-loop: TRUE when it returns isVoid: false
TargetPerfects(baseTarget, planet, moonLon, moonSpeed, daysToExit) ==
    LET estimatedDays == EstimateDays(0, QInt(0), baseTarget, planet.speed,
                                      moonLon, moonSpeed)
    IN  CompletesBeforeExit(estimatedDays, daysToExit)
        /\ StillInSign(moonLon, moonSpeed, estimatedDays)

\* the three nested loops, scanned in order until the first early return
RECURSIVE ScanAspects(_, _, _, _, _, _, _)
ScanAspects(p, a, t, planets, moonLon, moonSpeed, daysToExit) ==
    IF p > Len(planets) THEN FALSE
    ELSE IF a > Len(ASPECT_ANGLES)
         THEN ScanAspects(p + 1, 1, 1, planets, moonLon, moonSpeed, daysToExit)
    ELSE IF t > 2
         THEN ScanAspects(p, a + 1, 1, planets, moonLon, moonSpeed, daysToExit)
    ELSE IF TargetPerfects(Targets(planets[p], ASPECT_ANGLES[a])[t],
                           planets[p], moonLon, moonSpeed, daysToExit)
         THEN TRUE
    ELSE ScanAspects(p, a, t + 1, planets, moonLon, moonSpeed, daysToExit)

DegreesToBoundary_upperOnly(moonLon, moonSpeed) ==
    (moonLon \div 30) * 30 + 30 - moonLon

DegreesToBoundary(moonLon, moonSpeed) ==
    LET currentSignStart == (moonLon \div 30) * 30
        currentSignEnd == currentSignStart + 30
    IN  IF moonSpeed >= 0 THEN currentSignEnd - moonLon
        ELSE moonLon - currentSignStart

getVoidOfCourseStatus(moonLon, moonSpeed, planets) ==
    LET absSpeed == Abs(moonSpeed)
        daysToExit == Q(DegreesToBoundary(moonLon, moonSpeed), absSpeed)
    IN  IF absSpeed = 0 THEN [isVoid |-> TRUE, daysToExit |-> None]
        ELSE IF ScanAspects(1, 1, 1, planets, moonLon, moonSpeed, daysToExit)
             THEN [isVoid |-> FALSE, daysToExit |-> Some(daysToExit)]
        ELSE [isVoid |-> TRUE, daysToExit |-> Some(daysToExit)]

----------------------------------------------------------------------------
(* ephemeris.js and void-of-course.js: getVoidStatus                        *)

HoursPerDay == 24

\* resolution of the fixed-point Julian day
TicksPerHour == 4

Day == HoursPerDay * TicksPerHour

\* the ephemeris is constant on cells of CellHours hours
CellHours == 6

CellOf(t) == t \div (CellHours * TicksPerHour)

\* The skies the synthetic ephemeris can show.  "aspected": the Moon meets
\* the body before leaving its sign; "void": it does not; "stationary": the
\* Moon does not move.
Skies == {"aspected", "void", "stationary"}

\* one ephemeris shows a single kind of void sky
SkyChoices(seen) ==
    LET voidSeen == {seen[c] : c \in DOMAIN seen} \ {"aspected"}
    IN  {"aspected"} \cup (IF voidSeen = {} THEN Skies \ {"aspected"}
                           ELSE voidSeen)

\* calcPlanets(julday, allDefs) under the sky of julday's cell
calcPlanets(sky) ==
    CASE sky = "aspected" ->
            [moon |-> [longitude |-> 0, speed |-> 12],
             others |-> <<[longitude |-> 6, speed |-> 0]>>]
      [] sky = "void" ->
            [moon |-> [longitude |-> 18, speed |-> 12],
             others |-> <<[longitude |-> 10, speed |-> 0]>>]
      [] sky = "stationary" ->
            [moon |-> [longitude |-> 40, speed |-> 0],
             others |-> <<[longitude |-> 10, speed |-> 0]>>]

getSignIndex(longitude) ==
    IF longitude = NaN THEN NaN
    ELSE (JsRem(JsRem(longitude, 360) + 360, 360)) \div 30

\* swe_jdut1_to_utc: a Julian day as calendar fields
juldayToUtc(julday) ==
    [day |-> julday \div Day,
     hour |-> (julday % Day) \div TicksPerHour,
     tick |-> julday % TicksPerHour]

\* a span of days n/d in ticks
DaysToTicks(q) == (q.n * Day) \div q.d

\* line 35 under each sky
StatusUnder ==
    [sky \in Skies |->
        getVoidOfCourseStatus(calcPlanets(sky).moon.longitude,
                              calcPlanets(sky).moon.speed,
                              calcPlanets(sky).others)]

getVoidStatus_noFiniteGuard(julday, sky) ==
    LET positions == calcPlanets(sky)
        moon == positions.moon
        status == StatusUnder[sky]
        voidEndsAtJd ==
            IF status.isVoid
            THEN Some(julday + (IF IsNull(status.daysToExit) THEN 0
                                ELSE DaysToTicks(Val(status.daysToExit))))
            ELSE None
    IN  [isVoid |-> status.isVoid,
         moonLongitude |-> moon.longitude,
         moonSign |-> getSignIndex(moon.longitude),
         moonSpeed |-> moon.speed,
         daysToSignExit |-> status.daysToExit,
         voidEndsAtJd |-> voidEndsAtJd,
         voidEndsAtUtc |-> IF IsNull(voidEndsAtJd) THEN None
                           ELSE Some(juldayToUtc(Val(voidEndsAtJd)))]

getVoidStatus(julday, sky) ==
    LET positions == calcPlanets(sky)
        moon == positions.moon
        status == StatusUnder[sky]
        voidEndsAtJd ==
            IF status.isVoid /\ ~IsNull(status.daysToExit)
            THEN Some(julday + DaysToTicks(Val(status.daysToExit)))
            ELSE None
    IN  [isVoid |-> status.isVoid,
         moonLongitude |-> moon.longitude,
         moonSign |-> getSignIndex(moon.longitude),
         moonSpeed |-> moon.speed,
         daysToSignExit |-> status.daysToExit,
         voidEndsAtJd |-> voidEndsAtJd,
         voidEndsAtUtc |-> IF IsNull(voidEndsAtJd) THEN None
                           ELSE Some(juldayToUtc(Val(voidEndsAtJd)))]

\* x || y on a nullable number: null and 0 are both falsy
OrElse(x, y) == IF IsNull(x) \/ Val(x) = 0 THEN y ELSE Val(x)

\* x || y on a nullable object: only null is falsy
OrElseObj(x, y) == IF IsNull(x) THEN y ELSE Val(x)

----------------------------------------------------------------------------
(* void-of-course.js: findVoidPeriods                                       *)

maxBacktrackDays == 5

VoidIterations == 25

\* longest range of a call, in half days
MaxRangeHalfDays == 6

StartDays == {-2}
StepHours == {-24, 0, 24, 48, 144}

StepDays(stepHours) == (stepHours * Day) \div HoursPerDay

stepDays == StepDays(Val(call).stepHours)

VoidIdle ==
    /\ pc = "idle"
    /\ call = None
    /\ oracle = <<>>
    /\ nSamples = 0
    /\ backSampled = {}
    /\ periods = <<>>
    /\ currentVoid = None
    /\ prevJd = 0
    /\ prevStatus = None
    /\ jd = 0
    /\ currStatus = None
    /\ lastStatus = None
    /\ highJd = 0
    /\ lowJd = 0
    /\ bis = None
    /\ result = None

\* one await of getVoidStatus(t): the ephemeris answers with the sky of
\* t's cell, the same sky whenever the cell is sampled again
Sampled(t, sky) ==
    /\ CellOf(t) \in DOMAIN oracle => oracle[CellOf(t)] = sky
    /\ oracle' = IF CellOf(t) \in DOMAIN oracle THEN oracle
                 ELSE oracle @@ (CellOf(t) :> sky)
    /\ nSamples' = nSamples + 1
    /\ lastStatus' = Some(getVoidStatus(t, sky))

\* lines 68-73: the range is looked at first, then the step
EntryCheck_stepFirst(jdStart, jdEnd, stepHours) ==
    IF StepDays(stepHours) <= 0 THEN "throw"
    ELSE IF jdEnd <= jdStart THEN "empty"
    ELSE "run"

EntryCheck_zeroStepAllowed(jdStart, jdEnd, stepHours) ==
    IF jdEnd <= jdStart THEN "empty"
    ELSE IF StepDays(stepHours) < 0 THEN "throw"
    ELSE "run"

EntryCheck(jdStart, jdEnd, stepHours) ==
    IF jdEnd <= jdStart THEN "empty"
    ELSE IF StepDays(stepHours) <= 0 THEN "throw"
    ELSE "run"

\* lines 67-90 up to the first await: an empty range returns [], a
\* non-positive step throws, else jdStart is sampled and a void start enters
\* findVoidStartFromOngoing (lines 152-154)
Call ==
    /\ pc = "idle"
    /\ \E s \in StartDays, r \in -1..MaxRangeHalfDays, h \in StepHours,
          sky \in SkyChoices(oracle) :
          LET jdStart == s * Day
              jdEnd == jdStart + r * (Day \div 2)
              st == getVoidStatus(jdStart, sky)
              entry == EntryCheck(jdStart, jdEnd, h)
          IN  /\ call' = Some([jdStart |-> jdStart, jdEnd |-> jdEnd,
                               stepHours |-> h])
              /\ CASE entry = "empty" ->
                        /\ pc' = "done"
                        /\ result' = Some([returned |-> <<>>])
                        /\ UNCHANGED <<oracle, nSamples, lastStatus, prevJd,
                                       prevStatus, jd, highJd, lowJd>>
                   [] entry = "throw" ->
                        /\ pc' = "error"
                        /\ result' = Some([thrown |->
                                     "stepHours must be greater than 0"])
                        /\ UNCHANGED <<oracle, nSamples, lastStatus, prevJd,
                                       prevStatus, jd, highJd, lowJd>>
                   [] entry = "run" ->
                        /\ Sampled(jdStart, sky)
                        /\ prevJd' = jdStart
                        /\ prevStatus' = Some(st)
                        /\ jd' = jdStart + StepDays(h)
                        /\ highJd' = jdStart
                        /\ lowJd' = jdStart - StepDays(h)
                        /\ pc' = IF st.isVoid THEN "back" ELSE "scan"
                        /\ UNCHANGED result
    /\ UNCHANGED nonVoidVars
    /\ UNCHANGED <<backSampled, periods, currentVoid, currStatus, bis>>

EnterBisect(jdA, jdB, nonVoidToVoid, caller) ==
    /\ bis' = Some([jdA |-> jdA, jdB |-> jdB, low |-> jdA, high |-> jdB,
                    i |-> 0, nonVoidToVoid |-> nonVoidToVoid,
                    caller |-> caller, value |-> None])
    /\ pc' = "bisect"

minJd == Val(call).jdStart - maxBacktrackDays * Day

\* lines 156-164: one pass of the backward loop
BackwardSample ==
    /\ pc = "back"
    /\ lowJd >= minJd
    /\ \E sky \in SkyChoices(oracle) :
          /\ Sampled(lowJd, sky)
          /\ backSampled' = backSampled \cup {lowJd}
          /\ IF ~getVoidStatus(lowJd, sky).isVoid
             THEN /\ EnterBisect(lowJd, highJd, TRUE, "ongoing")
                  /\ UNCHANGED <<highJd, lowJd>>
             ELSE /\ highJd' = lowJd
                  /\ lowJd' = lowJd - stepDays
                  /\ UNCHANGED <<pc, bis>>
    /\ UNCHANGED nonVoidVars
    /\ UNCHANGED <<call, periods, currentVoid, prevJd, prevStatus, jd,
                   currStatus, result>>

OngoingVoid_flagKept(startJd, precise) ==
    Some([startJd |-> startJd,
          startUtc |-> juldayToUtc(startJd),
          moonSign |-> Val(prevStatus).moonSign,
          startedBeforeRangeStart |-> TRUE,
          startEstimated |-> precise])

\* lines 83-89
OngoingVoid(startJd, precise) ==
    Some([startJd |-> startJd,
          startUtc |-> juldayToUtc(startJd),
          moonSign |-> Val(prevStatus).moonSign,
          startedBeforeRangeStart |-> TRUE,
          startEstimated |-> ~precise])

\* line 166 and lines 83-89: the cap is passed, the start is only estimated
BackwardGiveUp ==
    /\ pc = "back"
    /\ lowJd < minJd
    /\ currentVoid' = OngoingVoid(Val(call).jdStart, FALSE)
    /\ pc' = "scan"
    /\ UNCHANGED nonVoidVars
    /\ UNCHANGED <<call, oracle, nSamples, backSampled, periods, prevJd,
                   prevStatus, jd, currStatus, lastStatus, highJd, lowJd, bis,
                   result>>

Mid_noHalving(low, high) == low + high

\* (low + high) / 2
Mid(low, high) == (low + high) \div 2

BisectNarrow_swapped(b, midIsVoid) ==
    LET mid == (b.low + b.high) \div 2
    IN  IF b.nonVoidToVoid
        THEN IF midIsVoid THEN [b EXCEPT !.low = mid, !.i = @ + 1]
             ELSE [b EXCEPT !.high = mid, !.i = @ + 1]
        ELSE IF midIsVoid THEN [b EXCEPT !.high = mid, !.i = @ + 1]
             ELSE [b EXCEPT !.low = mid, !.i = @ + 1]

\* lines 183-197: which bound takes the midpoint
BisectNarrow(b, midIsVoid) ==
    LET mid == Mid(b.low, b.high)
    IN  IF b.nonVoidToVoid
        THEN IF midIsVoid THEN [b EXCEPT !.high = mid, !.i = @ + 1]
             ELSE [b EXCEPT !.low = mid, !.i = @ + 1]
        ELSE IF midIsVoid THEN [b EXCEPT !.low = mid, !.i = @ + 1]
             ELSE [b EXCEPT !.high = mid, !.i = @ + 1]

\* lines 179-198: one iteration of bisectVoidTransition
BisectStep ==
    /\ pc = "bisect"
    /\ Val(bis).i < VoidIterations
    /\ \E sky \in SkyChoices(oracle) :
          /\ Sampled(Mid(Val(bis).low, Val(bis).high), sky)
          /\ bis' = Some(BisectNarrow(Val(bis),
                    getVoidStatus(Mid(Val(bis).low, Val(bis).high), sky).isVoid))
    /\ UNCHANGED nonVoidVars
    /\ UNCHANGED <<pc, call, backSampled, periods, currentVoid, prevJd,
                   prevStatus, jd, currStatus, highJd, lowJd, result>>

ClosedPeriod_endAtStart(cv, endJd) ==
    [type |-> "void_of_course",
     startJd |-> cv.startJd,
     startUtc |-> cv.startUtc,
     endJd |-> cv.startJd,
     endUtc |-> juldayToUtc(cv.startJd),
     durationHours |-> 0,
     moonSign |-> cv.moonSign,
     startedBeforeRangeStart |-> cv.startedBeforeRangeStart,
     startEstimated |-> cv.startEstimated]

\* lines 109-120
ClosedPeriod(cv, endJd) ==
    [type |-> "void_of_course",
     startJd |-> cv.startJd,
     startUtc |-> cv.startUtc,
     endJd |-> endJd,
     endUtc |-> juldayToUtc(endJd),
     durationHours |-> (endJd - cv.startJd) * HoursPerDay,
     moonSign |-> cv.moonSign,
     startedBeforeRangeStart |-> cv.startedBeforeRangeStart,
     startEstimated |-> cv.startEstimated]

DetectedVoid_flagSet(startJd) ==
    Some([startJd |-> startJd,
          startUtc |-> juldayToUtc(startJd),
          moonSign |-> Val(currStatus).moonSign,
          startedBeforeRangeStart |-> TRUE,
          startEstimated |-> FALSE])

\* lines 98-104: the void whose start the forward scan detected
DetectedVoid(startJd) ==
    Some([startJd |-> startJd,
          startUtc |-> juldayToUtc(startJd),
          moonSign |-> Val(currStatus).moonSign,
          startedBeforeRangeStart |-> FALSE,
          startEstimated |-> FALSE])

LoopTail_stalePrev ==
    /\ prevJd' = prevJd
    /\ prevStatus' = currStatus
    /\ jd' = jd + stepDays

\* lines 124-125 and the loop increment
LoopTail ==
    /\ prevJd' = jd
    /\ prevStatus' = currStatus
    /\ jd' = jd + stepDays

\* line 200, then the caller's continuation: lines 83-89 after line 160,
\* lines 98-104 after line 97, lines 108-121 after line 107; a call from
\* outside findVoidPeriods just gets the value
BisectReturn ==
    /\ pc = "bisect"
    /\ Val(bis).i >= VoidIterations
    /\ LET b == Val(bis)
           value == Mid(b.low, b.high)
       IN  /\ bis' = Some([b EXCEPT !.value = Some(value)])
           /\ CASE b.caller = "ongoing" ->
                   /\ currentVoid' = OngoingVoid(value, TRUE)
                   /\ pc' = "scan"
                   /\ UNCHANGED <<periods, prevJd, prevStatus, jd, result>>
             [] b.caller = "start" ->
                   /\ currentVoid' = DetectedVoid(value)
                   /\ LoopTail
                   /\ pc' = "scan"
                   /\ UNCHANGED <<periods, result>>
             [] b.caller = "end" ->
                   /\ periods' = Append(periods,
                                        ClosedPeriod(Val(currentVoid), value))
                   /\ currentVoid' = None
                   /\ LoopTail
                   /\ pc' = "scan"
                   /\ UNCHANGED result
             [] b.caller = "none" ->
                   /\ result' = Some([returned |-> value])
                   /\ pc' = "done"
                   /\ UNCHANGED <<periods, currentVoid, prevJd, prevStatus,
                                  jd>>
    /\ UNCHANGED nonVoidVars
    /\ UNCHANGED <<call, oracle, nSamples, backSampled, currStatus, lastStatus,
                   highJd, lowJd>>

\* lines 92-126: one sample of the forward loop
ScanStep ==
    /\ pc = "scan"
    /\ jd <= Val(call).jdEnd
    /\ \E sky \in SkyChoices(oracle) :
          LET st == getVoidStatus(jd, sky)
          IN  /\ Sampled(jd, sky)
              /\ currStatus' = Some(st)
              /\ IF ~Val(prevStatus).isVoid /\ st.isVoid /\ IsNull(currentVoid)
                 THEN /\ EnterBisect(prevJd, jd, TRUE, "start")
                      /\ UNCHANGED <<prevJd, prevStatus, jd>>
                 ELSE IF Val(prevStatus).isVoid /\ ~st.isVoid
                         /\ ~IsNull(currentVoid)
                 THEN /\ EnterBisect(prevJd, jd, FALSE, "end")
                      /\ UNCHANGED <<prevJd, prevStatus, jd>>
                 ELSE /\ prevJd' = jd
                      /\ prevStatus' = Some(st)
                      /\ jd' = jd + stepDays
                      /\ UNCHANGED <<pc, bis>>
    /\ UNCHANGED nonVoidVars
    /\ UNCHANGED <<call, backSampled, periods, currentVoid, highJd, lowJd,
                   result>>

OpenPeriod_durationToEnd(cv, status, jdEnd) ==
    [type |-> "void_of_course",
     startJd |-> cv.startJd,
     startUtc |-> cv.startUtc,
     endJd |-> OrElse(status.voidEndsAtJd, jdEnd),
     endUtc |-> OrElseObj(status.voidEndsAtUtc, juldayToUtc(jdEnd)),
     durationHours |-> (jdEnd - cv.startJd) * HoursPerDay,
     moonSign |-> cv.moonSign,
     startedBeforeRangeStart |-> cv.startedBeforeRangeStart,
     startEstimated |-> cv.startEstimated]

\* lines 131-141
OpenPeriod(cv, status, jdEnd) ==
    [type |-> "void_of_course",
     startJd |-> cv.startJd,
     startUtc |-> cv.startUtc,
     endJd |-> OrElse(status.voidEndsAtJd, jdEnd),
     endUtc |-> OrElseObj(status.voidEndsAtUtc, juldayToUtc(jdEnd)),
     durationHours |->
        (OrElse(status.voidEndsAtJd, jdEnd) - cv.startJd) * HoursPerDay,
     moonSign |-> cv.moonSign,
     startedBeforeRangeStart |-> cv.startedBeforeRangeStart,
     startEstimated |-> cv.startEstimated]

\* lines 128-144 with a void still open: sample jdEnd, push, return
FinishOpen ==
    /\ pc = "scan"
    /\ jd > Val(call).jdEnd
    /\ ~IsNull(currentVoid)
    /\ \E sky \in SkyChoices(oracle) :
          /\ Sampled(Val(call).jdEnd, sky)
          /\ periods' = Append(periods,
                OpenPeriod(Val(currentVoid),
                           getVoidStatus(Val(call).jdEnd, sky),
                           Val(call).jdEnd))
          /\ result' = Some([returned |-> periods'])
    /\ pc' = "done"
    /\ UNCHANGED nonVoidVars
    /\ UNCHANGED <<call, backSampled, currentVoid, prevJd, prevStatus, jd,
                   currStatus, highJd, lowJd, bis>>

\* line 144 with no void open
FinishClosed ==
    /\ pc = "scan"
    /\ jd > Val(call).jdEnd
    /\ IsNull(currentVoid)
    /\ result' = Some([returned |-> periods])
    /\ pc' = "done"
    /\ UNCHANGED nonVoidVars
    /\ UNCHANGED <<call, oracle, nSamples, backSampled, periods, currentVoid,
                   prevJd, prevStatus, jd, currStatus, lastStatus, highJd,
                   lowJd, bis>>

\* no getPlanetStatus call, no findPlanetEvents call, no batch
SignIdle ==
    /\ signIn = None
    /\ signOut = None
    /\ planetEvents = None
    /\ push = None

\* no scanner call and no checkEclipse call yet
EventIdle ==
    /\ scan = None
    /\ eclIn = None
    /\ eclOut = None
    /\ SignIdle

Init ==
    /\ VoidIdle
    /\ EventIdle
    /\ vocIn = None
    /\ vocOut = None

Next ==
    \/ Call
    \/ BackwardSample
    \/ BackwardGiveUp
    \/ BisectStep
    \/ BisectReturn
    \/ ScanStep
    \/ FinishOpen
    \/ FinishClosed

Spec == Init /\ [][Next]_vars

\* every await of a running call is resumed when the ephemeris answers
FairSpec == Spec /\ WF_vars(Next)

----------------------------------------------------------------------------
(* retrograde.js: bisectStation, bisectIngress; lunar-phases.js:            *)
(* bisectPhase.  Each is called on a coarse bracket; the ephemeris shows,   *)
(* per cell, a planet position or a Sun and Moon pair.                      *)

StationIterations_oneLess == 30 - 1

StationIterations == 30

IngressIterations == 30

PhaseIterations == 40

\* the findVoidPeriods frame, idle while a bisection is called on its own
scanVars == <<call, backSampled, periods, currentVoid, prevJd, prevStatus, jd,
              currStatus, lastStatus, highJd, lowJd>>

\* brackets a bisection is called on: jdA and the width, in cells
BracketStarts == {-2 * Day, 0}
MaxBracketCells == 4

Brackets ==
    {<<a, a + w * CellHours * TicksPerHour>> :
        a \in BracketStarts, w \in 1..MaxBracketCells}

\* calcPlanet results the synthetic ephemeris can show
StationSamples == [longitude : {100}, speed : {-1, 0, 1}]
IngressSamples == [longitude : {355, 5, 35}, speed : {1}]

\* ephemeris.js lines 97-106: what calcPlanet resolves with when
\* swe_calc_ut hands its callback an error and no position
FailedPos == [longitude |-> NaN, speed |-> NaN]

\* ephemeris.js line 104
IsRetrograde(pos) == pos.speed # NaN /\ pos.speed < 0
PhaseSamples == [sun : {QInt(0)},
                 moon : {QInt(350), QInt(10), QInt(170), QInt(190)}]

\* one await of calcPlanet(t, ...) or getSunMoonElongation(t)
Observed(t, seen, sample) ==
    CellOf(t) \in DOMAIN seen => seen[CellOf(t)] = sample

Reveal(t, seen, sample) ==
    IF CellOf(t) \in DOMAIN seen THEN seen ELSE seen @@ (CellOf(t) :> sample)

Frame(routine, jdA, jdB) ==
    [routine |-> routine, jdA |-> jdA, jdB |-> jdB, low |-> jdA,
     high |-> jdB, i |-> 0, value |-> None]

\* bisectVoidTransition called on a bracket
CallBisectVoid ==
    /\ pc = "idle"
    /\ \E br \in Brackets, nonVoidToVoid \in BOOLEAN :
          EnterBisect(br[1], br[2], nonVoidToVoid, "none")
    /\ UNCHANGED nonVoidVars
    /\ UNCHANGED <<oracle, nSamples, result>>
    /\ UNCHANGED scanVars

\* lunar-phases.js line 30
Elongation(sunMoon) ==
    QRem(QAddInt(QRem(QSub(sunMoon.moon, sunMoon.sun), 360), 360), 360)

PhaseDiff_noWrap(elongation, targetElongation) ==
    QAddInt(elongation, -targetElongation)

\* lunar-phases.js lines 52-54
PhaseDiff(elongation, targetElongation) ==
    LET diff == QAddInt(elongation, -targetElongation)
        wrapped == IF QGtInt(diff, 180) THEN QAddInt(diff, -360) ELSE diff
    IN  IF QLtInt(wrapped, -180) THEN QAddInt(wrapped, 360) ELSE wrapped

\* the oracle moonLon(t) = 13t mod 360, sunLon(t) = t mod 360, t in days
LinearSunMoon(t) ==
    [sun |-> QRem(Q(t, Day), 360), moon |-> QRem(Q(13 * t, Day), 360)]

\* the scanner runs on the linear oracle instead of the sampled one
OnLinearOracle == ~IsNull(scan) /\ Val(scan).linear

\* what getSunMoonElongation(t) can see, and what the ephemeris has shown
\* after it
PhaseAt(t) ==
    IF OnLinearOracle THEN {LinearSunMoon(t)}
    ELSE {sunMoon \in PhaseSamples : Observed(t, oracle, sunMoon)}

RevealPhase(t, sunMoon) ==
    IF OnLinearOracle THEN oracle ELSE Reveal(t, oracle, sunMoon)

\* the answers of calcPlanet: positions, and for a call made against a
\* failing ephemeris the result of a failed computation too
CalcPlanetResults(samples) ==
    IF ~IsNull(scan) /\ "failing" \in DOMAIN Val(scan)
    THEN samples \cup {FailedPos}
    ELSE samples

\* what neither a bisection nor a scanner touches
pureVars == <<vocIn, vocOut, eclIn, eclOut, signIn, signOut, planetEvents,
              push>>

\* lunar-phases.js lines 17-20
ECLIPSE_ORB == [solar |-> Q(37, 2), lunar |-> Q(12, 1)]

AntiNodeLon_same(nodeLon) == nodeLon

\* lunar-phases.js line 143
AntiNodeLon(nodeLon) == QRem(Fl(QAddInt(nodeLon, 180)), 360)

\* lunar-phases.js lines 148-149 and 151-152
ArcTo(targetLon, lon) ==
    LET dist == QAbs(Fl(QSub(targetLon, lon)))
    IN  IF QGtInt(dist, 180) THEN Fl(QSub(QInt(360), dist)) ELSE dist

\* lunar-phases.js line 146
TargetLon_moonAlways(phaseType, sun, moon) == moon.longitude

TargetLon(phaseType, sun, moon) ==
    IF phaseType = "new_moon" THEN sun.longitude ELSE moon.longitude

checkEclipse(phaseType, sun, moon, node) ==
    LET nodeLon == node.longitude
        antiNodeLon == AntiNodeLon(nodeLon)
        targetLon == TargetLon(phaseType, sun, moon)
        distToNode == ArcTo(targetLon, nodeLon)
        distToAntiNode == ArcTo(targetLon, antiNodeLon)
        minDist == QMin(distToNode, distToAntiNode)
    IN  IF phaseType = "new_moon" /\ QLe(minDist, ECLIPSE_ORB.solar)
        THEN Some([type |-> "solar", distanceToNode |-> minDist])
        ELSE IF phaseType = "full_moon" /\ QLe(minDist, ECLIPSE_ORB.lunar)
        THEN Some([type |-> "lunar", distanceToNode |-> minDist])
        ELSE None

\* node longitudes the ephemeris can show at a phase instant
NodeLons == {QInt(0), QInt(100)}

\* part_002 lines 92 and 163, lunar-phases.js line 98, and the loop increment
ScanTail(sc) == [sc EXCEPT !.prev = sc.curr, !.jd = sc.jd + sc.stepDays]

Pushed_inFront(sc, event) ==
    [sc EXCEPT !.events = <<event>> \o sc.events,
               !.brackets = Append(sc.brackets, <<sc.jd - sc.stepDays, sc.jd>>)]

\* the event pushed for the bracket [jd - stepDays, jd]
Pushed(sc, event) ==
    [sc EXCEPT !.events = Append(sc.events, event),
               !.brackets = Append(sc.brackets, <<sc.jd - sc.stepDays, sc.jd>>)]

StationEvent_typeFromPrev(sc, exactJd, exactPos) ==
    [type |-> IF sc.prev.speed < 0 THEN "station_retrograde"
              ELSE "station_direct",
     julday |-> exactJd,
     utc |-> juldayToUtc(exactJd),
     longitude |-> exactPos.longitude,
     sign |-> getSignIndex(exactPos.longitude),
     degreeInSign |-> JsRem(exactPos.longitude, 30)]

\* part_002 lines 76-89
StationEvent(sc, exactJd, exactPos) ==
    [type |-> IF sc.curr.speed < 0 THEN "station_retrograde"
              ELSE "station_direct",
     julday |-> exactJd,
     utc |-> juldayToUtc(exactJd),
     longitude |-> exactPos.longitude,
     sign |-> getSignIndex(exactPos.longitude),
     degreeInSign |-> JsRem(exactPos.longitude, 30)]

\* part_002 lines 147-156
IngressEvent_refinedSign(sc, exactJd, exactPos) ==
    [type |-> "ingress",
     julday |-> exactJd,
     utc |-> juldayToUtc(exactJd),
     fromSign |-> sc.prevSign,
     toSign |-> getSignIndex(exactPos.longitude),
     longitude |-> exactPos.longitude,
     retrograde |-> IsRetrograde(exactPos)]

IngressEvent(sc, exactJd, exactPos) ==
    [type |-> "ingress",
     julday |-> exactJd,
     utc |-> juldayToUtc(exactJd),
     fromSign |-> sc.prevSign,
     toSign |-> getSignIndex(sc.curr.longitude),
     longitude |-> exactPos.longitude,
     retrograde |-> IsRetrograde(exactPos)]

AfterIngress_stale(sc) == sc

\* part_002 line 158
AfterIngress(sc) == [sc EXCEPT !.prevSign = getSignIndex(sc.curr.longitude)]

\* lunar-phases.js lines 107-129: buildPhaseEvent
buildPhaseEvent(julday, type, sunMoon, nodeLon) ==
    [type |-> type,
     julday |-> julday,
     utc |-> juldayToUtc(julday),
     moonLongitude |-> sunMoon.moon,
     sunLongitude |-> sunMoon.sun,
     eclipse |-> checkEclipse(type, [longitude |-> sunMoon.sun],
                              [longitude |-> sunMoon.moon],
                              [longitude |-> nodeLon])]

\* lunar-phases.js line 85
NewMoonCrossed(prev, curr) ==
    QGtInt(Elongation(prev), 300) /\ QLtInt(Elongation(curr), 60)

FullMoonCrossed_strict(prev, curr) ==
    QLtInt(Elongation(prev), 180) /\ QGtInt(Elongation(curr), 180)

\* lunar-phases.js line 92
FullMoonCrossed(prev, curr) ==
    QLtInt(Elongation(prev), 180) /\ QGeInt(Elongation(curr), 180)

CallBisectStation ==
    /\ pc = "idle"
    /\ \E br \in Brackets : bis' = Some(Frame("station", br[1], br[2]))
    /\ pc' = "bisectStation"
    /\ UNCHANGED nonVoidVars
    /\ UNCHANGED <<oracle, nSamples, result>>
    /\ UNCHANGED scanVars

SignChanges_negativePair(posLow, posMid) ==
    \/ (posLow.speed > 0 /\ posMid.speed < 0)
    \/ (posLow.speed < 0 /\ posMid.speed < 0)

\* part_002 lines 75 and 109
SignChanges(posLow, posMid) ==
    \/ (posLow.speed > 0 /\ posMid.speed < 0)
    \/ (posLow.speed < 0 /\ posMid.speed > 0)

\* part_002 lines 103-114: one iteration of bisectStation
BisectStationStep ==
    /\ pc = "bisectStation"
    /\ Val(bis).i < StationIterations
    /\ LET b == Val(bis)
           jdMid == Mid(b.low, b.high)
       IN  \E posLow \in StationSamples, posMid \in StationSamples :
              /\ Observed(b.low, oracle, posLow)
              /\ Observed(jdMid, Reveal(b.low, oracle, posLow), posMid)
              /\ oracle' = Reveal(jdMid, Reveal(b.low, oracle, posLow), posMid)
              /\ nSamples' = nSamples + 2
              /\ bis' = Some(IF SignChanges(posLow, posMid)
                             THEN [b EXCEPT !.high = jdMid, !.i = @ + 1]
                             ELSE [b EXCEPT !.low = jdMid, !.i = @ + 1])
    /\ UNCHANGED nonVoidVars
    /\ UNCHANGED <<pc, result>>
    /\ UNCHANGED scanVars

\* part_002 line 116, and in findStations lines 78-92 after line 77
BisectStationReturn ==
    /\ pc = "bisectStation"
    /\ Val(bis).i >= StationIterations
    /\ LET exactJd == Mid(Val(bis).low, Val(bis).high)
       IN  /\ bis' = Some([Val(bis) EXCEPT !.value = Some(exactJd)])
           /\ IF IsNull(scan)
              THEN /\ result' = Some([returned |-> exactJd])
                   /\ pc' = "done"
                   /\ UNCHANGED <<oracle, nSamples, scan>>
              ELSE \E exactPos \in StationSamples :
                      /\ Observed(exactJd, oracle, exactPos)
                      /\ oracle' = Reveal(exactJd, oracle, exactPos)
                      /\ nSamples' = nSamples + 1
                      /\ scan' = Some(ScanTail(Pushed(Val(scan),
                            StationEvent(Val(scan), exactJd, exactPos))))
                      /\ pc' = "stations"
                      /\ UNCHANGED result
    /\ UNCHANGED pureVars
    /\ UNCHANGED scanVars

CallBisectIngress ==
    /\ pc = "idle"
    /\ \E br \in Brackets, fromSign \in {11, 0} :
          bis' = Some(Frame("ingress", br[1], br[2])
                      @@ [fromSign |-> fromSign])
    /\ pc' = "bisectIngress"
    /\ UNCHANGED nonVoidVars
    /\ UNCHANGED <<oracle, nSamples, result>>
    /\ UNCHANGED scanVars

\* part_002 lines 173-183: one iteration of bisectIngress
BisectIngressStep ==
    /\ pc = "bisectIngress"
    /\ Val(bis).i < IngressIterations
    /\ LET b == Val(bis)
           jdMid == Mid(b.low, b.high)
       IN  \E posMid \in CalcPlanetResults(IngressSamples) :
              /\ Observed(jdMid, oracle, posMid)
              /\ oracle' = Reveal(jdMid, oracle, posMid)
              /\ nSamples' = nSamples + 1
              /\ bis' = Some(IF StrictEqual(getSignIndex(posMid.longitude),
                                            b.fromSign)
                             THEN [b EXCEPT !.low = jdMid, !.i = @ + 1]
                             ELSE [b EXCEPT !.high = jdMid, !.i = @ + 1])
    /\ UNCHANGED nonVoidVars
    /\ UNCHANGED <<pc, result>>
    /\ UNCHANGED scanVars

\* part_002 line 185, and in findIngresses lines 142-163 after line 141
BisectIngressReturn ==
    /\ pc = "bisectIngress"
    /\ Val(bis).i >= IngressIterations
    /\ LET exactJd == Mid(Val(bis).low, Val(bis).high)
       IN  /\ bis' = Some([Val(bis) EXCEPT !.value = Some(exactJd)])
           /\ IF IsNull(scan)
              THEN /\ result' = Some([returned |-> exactJd])
                   /\ pc' = "done"
                   /\ UNCHANGED <<oracle, nSamples, scan>>
              ELSE \E exactPos \in CalcPlanetResults(IngressSamples) :
                      /\ Observed(exactJd, oracle, exactPos)
                      /\ oracle' = Reveal(exactJd, oracle, exactPos)
                      /\ nSamples' = nSamples + 1
                      /\ scan' = Some(ScanTail(AfterIngress(
                            Pushed(Val(scan),
                                   IngressEvent(Val(scan), exactJd, exactPos)))))
                      /\ pc' = "ingresses"
                      /\ UNCHANGED result
    /\ UNCHANGED pureVars
    /\ UNCHANGED scanVars

CallBisectPhase ==
    /\ pc = "idle"
    /\ \E br \in Brackets, targetElongation \in {0, 180} :
          bis' = Some(Frame("phase", br[1], br[2])
                      @@ [targetElongation |-> targetElongation])
    /\ pc' = "bisectPhase"
    /\ UNCHANGED nonVoidVars
    /\ UNCHANGED <<oracle, nSamples, result>>
    /\ UNCHANGED scanVars

\* lunar-phases.js lines 47-63: one iteration of bisectPhase
BisectPhaseStep ==
    /\ pc = "bisectPhase"
    /\ Val(bis).i < PhaseIterations
    /\ LET b == Val(bis)
           jdMid == Mid(b.low, b.high)
       IN  \E sunMoon \in PhaseAt(jdMid) :
           \E elongation \in {Elongation(sunMoon)} :
           \E diff \in {PhaseDiff(elongation, b.targetElongation)} :
              /\ oracle' = RevealPhase(jdMid, sunMoon)
              /\ nSamples' = nSamples + 2
              /\ bis' = Some(IF QLtInt(diff, 0)
                             THEN [b EXCEPT !.low = jdMid, !.i = @ + 1]
                             ELSE [b EXCEPT !.high = jdMid, !.i = @ + 1])
    /\ UNCHANGED nonVoidVars
    /\ UNCHANGED <<pc, result>>
    /\ UNCHANGED scanVars

\* lunar-phases.js line 65, and in findLunarPhases lines 87-88 after line
\* 86 (then the full-moon test of line 92), lines 94-98 after line 93
BisectPhaseReturn ==
    /\ pc = "bisectPhase"
    /\ Val(bis).i >= PhaseIterations
    /\ LET exactJd == Mid(Val(bis).low, Val(bis).high)
           done == [Val(bis) EXCEPT !.value = Some(exactJd)]
       IN  IF IsNull(scan)
           THEN /\ bis' = Some(done)
                /\ result' = Some([returned |-> exactJd])
                /\ pc' = "done"
                /\ UNCHANGED <<oracle, nSamples, scan>>
           ELSE \E sunMoon \in PhaseAt(exactJd), nodeLon \in NodeLons :
                  LET sc == Val(scan)
                      type == IF Val(bis).targetElongation = 0
                              THEN "new_moon" ELSE "full_moon"
                      pushed == Pushed(sc, buildPhaseEvent(exactJd, type,
                                                           sunMoon, nodeLon))
                  IN  /\ oracle' = RevealPhase(exactJd, sunMoon)
                      /\ nSamples' = nSamples + 3
                      /\ UNCHANGED result
                      /\ IF type = "new_moon"
                            /\ FullMoonCrossed(sc.prev, sc.curr)
                         THEN /\ scan' = Some(pushed)
                              /\ bis' = Some(Frame("phase", sc.jd - sc.stepDays,
                                                   sc.jd)
                                             @@ [targetElongation |-> 180])
                              /\ pc' = "bisectPhase"
                         ELSE /\ scan' = Some(ScanTail(pushed))
                              /\ bis' = Some(done)
                              /\ pc' = "phases"
    /\ UNCHANGED pureVars
    /\ UNCHANGED scanVars

BisectNext ==
    \/ CallBisectVoid
    \/ BisectStep
    \/ BisectReturn
    \/ CallBisectStation
    \/ BisectStationStep
    \/ BisectStationReturn
    \/ CallBisectIngress
    \/ BisectIngressStep
    \/ BisectIngressReturn
    \/ CallBisectPhase
    \/ BisectPhaseStep
    \/ BisectPhaseReturn

SpecBisect == Init /\ [][BisectNext]_vars

\* every await of a running bisection is resumed when the ephemeris answers
FairSpecBisect == SpecBisect /\ WF_vars(BisectNext)

\* C3: every bisection keeps t_low <= low <= high <= t_high after every
\* iteration, whatever the predicate does inside the bracket, and returns a
\* time within [t_low, t_high].
C3_WithinBracket ==
    ~IsNull(bis) =>
        /\ Val(bis).jdA <= Val(bis).low
        /\ Val(bis).low <= Val(bis).high
        /\ Val(bis).high <= Val(bis).jdB
        /\ ~IsNull(Val(bis).value) =>
              /\ Val(bis).jdA <= Val(Val(bis).value)
              /\ Val(Val(bis).value) <= Val(bis).jdB

\* a station bisection that returned after its bounds moved on both sides
C3_Witness ==
    /\ pc = "done"
    /\ ~IsNull(bis)
    /\ "routine" \in DOMAIN Val(bis)
    /\ Val(bis).routine = "station"
    /\ ~IsNull(Val(bis).value)
    /\ Val(bis).jdA < Val(bis).low
    /\ Val(bis).high < Val(bis).jdB

----------------------------------------------------------------------------
(* retrograde.js: findStations, findIngresses; lunar-phases.js:             *)
(* findLunarPhases.  A scanner samples jdStart, then jdStart + k * stepDays *)
(* up to jdEnd, and calls its bisection on each pair that shows a flip.     *)

\* longest range of a scanner call on the sampled ephemeris, in half days
MaxScanHalfDays == 4

ScanStarts == {-Day}
ScanSteps == {Day \div 2, Day}

\* ranges of a findLunarPhases call on the linear oracle, in days
LinearStarts == {-Day, -(Day \div 2), 0}
LinearEnds == {30 * Day, 30 * Day + Day \div 2, 31 * Day}

\* part_002 lines 66-71 and 130-135, lunar-phases.js lines 76-81
NewScan(routine, jdStart, jdEnd, step, first, linear) ==
    [routine |-> routine, jdStart |-> jdStart, jdEnd |-> jdEnd,
     stepDays |-> step, jd |-> jdStart + step, prev |-> first,
     curr |-> first, events |-> <<>>, brackets |-> <<>>,
     coarse |-> <<first>>, linear |-> linear]

\* the coarse sample taken at sc.jd
Seen(sc, sample) == [sc EXCEPT !.curr = sample, !.coarse = Append(@, sample)]

\* the longest list of coarse samples followed: one more than any scan
\* with a positive step takes
MaxCoarse == MaxScanHalfDays + 2

\* part_002 lines 65-69
CallFindStations ==
    /\ pc = "idle"
    /\ \E jdStart \in ScanStarts, r \in 0..MaxScanHalfDays,
          step \in ScanSteps, prevPos \in StationSamples :
          /\ scan' = Some(NewScan("stations", jdStart,
                                  jdStart + r * (Day \div 2), step, prevPos,
                                  FALSE))
          /\ oracle' = Reveal(jdStart, oracle, prevPos)
    /\ nSamples' = nSamples + 1
    /\ pc' = "stations"
    /\ UNCHANGED pureVars
    /\ UNCHANGED <<bis, result>>
    /\ UNCHANGED scanVars

\* part_002 lines 71-93: one coarse sample of findStations
StationsStep ==
    /\ pc = "stations"
    /\ Val(scan).jd <= Val(scan).jdEnd
    /\ Len(Val(scan).coarse) < MaxCoarse
    /\ LET sc == Val(scan)
       IN  \E currPos \in StationSamples :
              /\ Observed(sc.jd, oracle, currPos)
              /\ oracle' = Reveal(sc.jd, oracle, currPos)
              /\ nSamples' = nSamples + 1
              /\ IF SignChanges(sc.prev, currPos)
                 THEN /\ scan' = Some(Seen(sc, currPos))
                      /\ bis' = Some(Frame("station", sc.jd - sc.stepDays,
                                           sc.jd))
                      /\ pc' = "bisectStation"
                 ELSE /\ scan' = Some(ScanTail(Seen(sc, currPos)))
                      /\ UNCHANGED <<pc, bis>>
    /\ UNCHANGED pureVars
    /\ UNCHANGED result
    /\ UNCHANGED scanVars

\* part_002 lines 129-133
CallFindIngresses ==
    /\ pc = "idle"
    /\ \E jdStart \in ScanStarts, r \in 0..MaxScanHalfDays,
          step \in ScanSteps, prevPos \in IngressSamples :
          /\ scan' = Some(NewScan("ingresses", jdStart,
                                  jdStart + r * (Day \div 2), step, prevPos,
                                  FALSE)
                          @@ [prevSign |-> getSignIndex(prevPos.longitude)])
          /\ oracle' = Reveal(jdStart, oracle, prevPos)
    /\ nSamples' = nSamples + 1
    /\ pc' = "ingresses"
    /\ UNCHANGED pureVars
    /\ UNCHANGED <<bis, result>>
    /\ UNCHANGED scanVars

\* part_002 lines 135-164: one coarse sample of findIngresses
IngressesStep ==
    /\ pc = "ingresses"
    /\ Val(scan).jd <= Val(scan).jdEnd
    /\ Len(Val(scan).coarse) < MaxCoarse
    /\ LET sc == Val(scan)
       IN  \E currPos \in CalcPlanetResults(IngressSamples) :
              /\ Observed(sc.jd, oracle, currPos)
              /\ oracle' = Reveal(sc.jd, oracle, currPos)
              /\ nSamples' = nSamples + 1
              /\ IF StrictNotEqual(sc.prevSign,
                                   getSignIndex(currPos.longitude))
                 THEN /\ scan' = Some(Seen(sc, currPos))
                      /\ bis' = Some(Frame("ingress", sc.jd - sc.stepDays,
                                           sc.jd)
                                     @@ [fromSign |-> sc.prevSign])
                      /\ pc' = "bisectIngress"
                 ELSE /\ scan' = Some(ScanTail(
                            [Seen(sc, currPos) EXCEPT !.prevSign =
                                getSignIndex(currPos.longitude)]))
                      /\ UNCHANGED <<pc, bis>>
    /\ UNCHANGED pureVars
    /\ UNCHANGED result
    /\ UNCHANGED scanVars

\* lunar-phases.js lines 75-79, on the sampled ephemeris or the linear oracle
CallFindLunarPhases ==
    /\ pc = "idle"
    /\ \/ \E jdStart \in ScanStarts, r \in 0..MaxScanHalfDays,
             prev \in PhaseSamples :
             /\ scan' = Some(NewScan("phases", jdStart,
                                     jdStart + r * (Day \div 2), Day, prev,
                                     FALSE))
             /\ oracle' = Reveal(jdStart, oracle, prev)
       \/ \E jdStart \in LinearStarts, jdEnd \in LinearEnds :
             /\ scan' = Some(NewScan("phases", jdStart, jdEnd, Day,
                                     LinearSunMoon(jdStart), TRUE))
             /\ UNCHANGED oracle
    /\ nSamples' = nSamples + 2
    /\ pc' = "phases"
    /\ UNCHANGED pureVars
    /\ UNCHANGED <<bis, result>>
    /\ UNCHANGED scanVars

\* lunar-phases.js lines 81-99: one coarse sample of findLunarPhases, up to
\* its first bisection
PhasesStep ==
    /\ pc = "phases"
    /\ Val(scan).jd <= Val(scan).jdEnd
    /\ LET sc == Val(scan)
       IN  \E curr \in PhaseAt(sc.jd) :
              /\ oracle' = RevealPhase(sc.jd, curr)
              /\ nSamples' = nSamples + 2
              /\ IF NewMoonCrossed(sc.prev, curr)
                 THEN /\ scan' = Some(Seen(sc, curr))
                      /\ bis' = Some(Frame("phase", sc.jd - sc.stepDays, sc.jd)
                                     @@ [targetElongation |-> 0])
                      /\ pc' = "bisectPhase"
                 ELSE IF FullMoonCrossed(sc.prev, curr)
                 THEN /\ scan' = Some(Seen(sc, curr))
                      /\ bis' = Some(Frame("phase", sc.jd - sc.stepDays, sc.jd)
                                     @@ [targetElongation |-> 180])
                      /\ pc' = "bisectPhase"
                 ELSE /\ scan' = Some(ScanTail(Seen(sc, curr)))
                      /\ UNCHANGED <<pc, bis>>
    /\ UNCHANGED pureVars
    /\ UNCHANGED result
    /\ UNCHANGED scanVars

\* part_002 lines 95 and 166, lunar-phases.js line 101
ScanReturn ==
    /\ pc \in {"stations", "ingresses", "phases"}
    /\ Val(scan).jd > Val(scan).jdEnd
    /\ result' = Some([returned |-> Val(scan).events])
    /\ pc' = "done"
    /\ UNCHANGED pureVars
    /\ UNCHANGED <<oracle, nSamples, bis, scan>>
    /\ UNCHANGED scanVars

ScanNext ==
    \/ CallFindStations
    \/ StationsStep
    \/ BisectStationStep
    \/ BisectStationReturn
    \/ CallFindIngresses
    \/ IngressesStep
    \/ BisectIngressStep
    \/ BisectIngressReturn
    \/ CallFindLunarPhases
    \/ PhasesStep
    \/ BisectPhaseStep
    \/ BisectPhaseReturn
    \/ ScanReturn

SpecScan == Init /\ [][ScanNext]_vars

\* ranges of a call against a failing ephemeris, in half days
MaxFailingHalfDays == 2

\* part_002 lines 129-133, the ephemeris failing on some samples
CallFindIngressesFailing ==
    /\ pc = "idle"
    /\ \E jdStart \in ScanStarts, r \in 0..MaxFailingHalfDays,
          step \in ScanSteps, prevPos \in IngressSamples \cup {FailedPos} :
          /\ scan' = Some(NewScan("ingresses", jdStart,
                                  jdStart + r * (Day \div 2), step, prevPos,
                                  FALSE)
                          @@ [prevSign |-> getSignIndex(prevPos.longitude),
                              failing |-> TRUE])
          /\ oracle' = Reveal(jdStart, oracle, prevPos)
    /\ nSamples' = nSamples + 1
    /\ pc' = "ingresses"
    /\ UNCHANGED pureVars
    /\ UNCHANGED <<bis, result>>
    /\ UNCHANGED scanVars

\* ephemeris.js lines 96-97: swe_calc_ut throws inside the promise
\* executor, the promise rejects, and findIngresses, which catches
\* nothing, rejects with the same error
CalcPlanetThrows ==
    /\ pc \in {"ingresses", "bisectIngress"}
    /\ ~IsNull(scan) /\ "failing" \in DOMAIN Val(scan)
    /\ pc = "ingresses" => Val(scan).jd <= Val(scan).jdEnd
    /\ result' = Some([thrown |-> "swe_calc_ut"])
    /\ pc' = "error"
    /\ UNCHANGED pureVars
    /\ UNCHANGED <<oracle, nSamples, bis, scan>>
    /\ UNCHANGED scanVars

FailingNext ==
    \/ CallFindIngressesFailing
    \/ IngressesStep
    \/ BisectIngressStep
    \/ BisectIngressReturn
    \/ CalcPlanetThrows
    \/ ScanReturn

SpecFailing == Init /\ [][FailingNext]_vars

\* step values a caller may pass: negative, zero, positive
AnySteps == {-(Day \div 4), 0, Day}

\* part_002 lines 65-69, stepDays as the caller passes it
CallFindStationsAnyStep ==
    /\ pc = "idle"
    /\ \E jdStart \in ScanStarts, r \in 0..MaxScanHalfDays,
          step \in AnySteps, prevPos \in StationSamples :
          /\ scan' = Some(NewScan("stations", jdStart,
                                  jdStart + r * (Day \div 2), step, prevPos,
                                  FALSE))
          /\ oracle' = Reveal(jdStart, oracle, prevPos)
    /\ nSamples' = nSamples + 1
    /\ pc' = "stations"
    /\ UNCHANGED pureVars
    /\ UNCHANGED <<bis, result>>
    /\ UNCHANGED scanVars

\* part_002 lines 129-133, stepDays as the caller passes it
CallFindIngressesAnyStep ==
    /\ pc = "idle"
    /\ \E jdStart \in ScanStarts, r \in 0..MaxScanHalfDays,
          step \in AnySteps, prevPos \in IngressSamples :
          /\ scan' = Some(NewScan("ingresses", jdStart,
                                  jdStart + r * (Day \div 2), step, prevPos,
                                  FALSE)
                          @@ [prevSign |-> getSignIndex(prevPos.longitude)])
          /\ oracle' = Reveal(jdStart, oracle, prevPos)
    /\ nSamples' = nSamples + 1
    /\ pc' = "ingresses"
    /\ UNCHANGED pureVars
    /\ UNCHANGED <<bis, result>>
    /\ UNCHANGED scanVars

AnyStepNext ==
    \/ CallFindStationsAnyStep
    \/ StationsStep
    \/ BisectStationStep
    \/ BisectStationReturn
    \/ CallFindIngressesAnyStep
    \/ IngressesStep
    \/ BisectIngressStep
    \/ BisectIngressReturn
    \/ ScanReturn

SpecAnyStep == Init /\ [][AnyStepNext]_vars

\* every await of a running scan is resumed when the ephemeris answers
FairSpecAnyStep == SpecAnyStep /\ WF_vars(AnyStepNext)

----------------------------------------------------------------------------
(* findPlanetEvents: findStations and findIngresses started together and    *)
(* resumed one await at a time, in any order, against one ephemeris         *)

\* ranges of a findPlanetEvents call, in half days
MaxPlanetHalfDays == 2

\* positions of the planet: either side of 0 Aries, direct or retrograde
PlanetPositions == [longitude : {355, 5}, speed : {-1, 1}]

\* a deterministic ephemeris: one position up to a cell, another from it on
Ephemerides ==
    [before : PlanetPositions, after : PlanetPositions,
     changeCell : CellOf(-Day)..CellOf(0)]

\* ephemeris.js lines 95-108 on such an ephemeris
PositionAt(sky, t) ==
    IF CellOf(t) < sky.changeCell THEN sky.before ELSE sky.after

Categories == {"personal", "social"}

\* stepDays as passed; 0 stands for a step that was not passed
PassedSteps == {0, Day}

\* part_002 lines 213-220
getDefaultStep(category) ==
    CASE category = "personal" -> Day \div 2
      [] category = "social" -> Day
      [] category = "transpersonal" -> 2 * Day
      [] OTHER -> Day

\* part_002 line 200
StepOf(passed, category) ==
    IF passed # 0 THEN passed ELSE getDefaultStep(category)

TaskNames == {"stations", "ingresses"}

\* part_002 lines 203-204: a detector from its call to its first await
StartFrame(routine, jdStart, jdEnd, step) ==
    [routine |-> routine, pc |-> "first", jdStart |-> jdStart,
     jdEnd |-> jdEnd, stepDays |-> step, sc |-> None, b |-> None,
     posLow |-> None]

\* the loop test of part_002 lines 71 and 135
Looping(sc) == IF sc.jd <= sc.jdEnd THEN "coarse" ELSE "done"

\* part_002 lines 108-115 and 178-182: the bounds after one iteration
Narrowed(fr, posMid) ==
    LET b == Val(fr.b)
        jdMid == Mid(b.low, b.high)
    IN  IF fr.routine = "stations"
        THEN IF SignChanges(Val(fr.posLow), posMid)
             THEN [b EXCEPT !.high = jdMid, !.i = @ + 1]
             ELSE [b EXCEPT !.low = jdMid, !.i = @ + 1]
        ELSE IF StrictEqual(getSignIndex(posMid.longitude), b.fromSign)
             THEN [b EXCEPT !.low = jdMid, !.i = @ + 1]
             ELSE [b EXCEPT !.high = jdMid, !.i = @ + 1]

\* one detector from the await it stands at to its next await or its
\* return: findStations (part_002 lines 65-96, 102-117) or findIngresses
\* (lines 129-167, 172-186)
TaskStep(fr, sky) ==
    CASE fr.pc = "first" ->
            LET prevPos == PositionAt(sky, fr.jdStart)
                sc == IF fr.routine = "stations"
                      THEN NewScan("stations", fr.jdStart, fr.jdEnd,
                                   fr.stepDays, prevPos, FALSE)
                      ELSE NewScan("ingresses", fr.jdStart, fr.jdEnd,
                                   fr.stepDays, prevPos, FALSE)
                           @@ [prevSign |-> getSignIndex(prevPos.longitude)]
            IN  [fr EXCEPT !.sc = Some(sc), !.pc = Looping(sc)]
      [] fr.pc = "coarse" ->
            LET sc == Val(fr.sc)
                currPos == PositionAt(sky, sc.jd)
                quiet == IF fr.routine = "stations"
                         THEN ScanTail(Seen(sc, currPos))
                         ELSE ScanTail([Seen(sc, currPos) EXCEPT !.prevSign =
                                           getSignIndex(currPos.longitude)])
            IN  IF fr.routine = "stations" /\ SignChanges(sc.prev, currPos)
                THEN [fr EXCEPT !.sc = Some(Seen(sc, currPos)),
                                !.b = Some(Frame("station",
                                                 sc.jd - sc.stepDays, sc.jd)),
                                !.pc = "low"]
                ELSE IF fr.routine = "ingresses"
                        /\ StrictNotEqual(sc.prevSign,
                                          getSignIndex(currPos.longitude))
                THEN [fr EXCEPT !.sc = Some(Seen(sc, currPos)),
                                !.b = Some(Frame("ingress",
                                                 sc.jd - sc.stepDays, sc.jd)
                                           @@ [fromSign |-> sc.prevSign]),
                                !.pc = "mid"]
                ELSE [fr EXCEPT !.sc = Some(quiet), !.pc = Looping(quiet)]
      [] fr.pc = "low" ->
            [fr EXCEPT !.posLow = Some(PositionAt(sky, Val(fr.b).low)),
                       !.pc = "mid"]
      [] fr.pc = "mid" ->
            LET b == Val(fr.b)
                after == Narrowed(fr, PositionAt(sky, Mid(b.low, b.high)))
                limit == IF fr.routine = "stations" THEN StationIterations
                         ELSE IngressIterations
            IN  [fr EXCEPT !.b = Some(after),
                           !.pc = IF after.i < limit
                                  THEN (IF fr.routine = "stations"
                                        THEN "low" ELSE "mid")
                                  ELSE "bisected"]
      [] fr.pc = "bisected" ->
            [fr EXCEPT !.b = Some([Val(fr.b) EXCEPT !.value =
                                      Some(Mid(Val(fr.b).low, Val(fr.b).high))]),
                       !.pc = "utc"]
      [] fr.pc = "utc" -> [fr EXCEPT !.pc = "exact"]
      [] fr.pc = "exact" ->
            LET sc == Val(fr.sc)
                exactJd == Val(Val(fr.b).value)
                exactPos == PositionAt(sky, exactJd)
                next == IF fr.routine = "stations"
                        THEN ScanTail(Pushed(sc,
                                StationEvent(sc, exactJd, exactPos)))
                        ELSE ScanTail(AfterIngress(Pushed(sc,
                                IngressEvent(sc, exactJd, exactPos))))
            IN  [fr EXCEPT !.sc = Some(next), !.pc = Looping(next)]
      [] OTHER -> fr

\* the list a detector returns when nothing else runs
RECURSIVE RunAlone(_, _)
RunAlone(fr, sky) ==
    IF fr.pc = "done" THEN Val(fr.sc).events
    ELSE RunAlone(TaskStep(fr, sky), sky)

OtherTask(name) == IF name = "stations" THEN "ingresses" ELSE "stations"

AfterAwait_sharedPrevPos(tasks, name, fr) ==
    [tasks EXCEPT
        ![name] = fr,
        ![OtherTask(name)].sc =
            IF IsNull(@) \/ IsNull(fr.sc) THEN @
            ELSE Some([Val(@) EXCEPT !.prev = Val(fr.sc).prev])]

\* part_002 lines 66-69 and 130-133: stations, ingresses, prevPos, prevSign
\* and jd are locals of the call, so a resumed detector changes its own
\* frame only
AfterAwait(tasks, name, fr) == [tasks EXCEPT ![name] = fr]

\* part_002 lines 197-205
CallFindPlanetEvents ==
    /\ pc = "idle"
    /\ planetEvents = None
    /\ \E jdStart \in ScanStarts, r \in 0..MaxPlanetHalfDays,
          passed \in PassedSteps, category \in Categories,
          sky \in Ephemerides :
          LET started == [name \in TaskNames |->
                             StartFrame(name, jdStart,
                                        jdStart + r * (Day \div 2),
                                        StepOf(passed, category))]
          IN  planetEvents' =
                 Some([sky |-> sky,
                       tasks |-> started,
                       alone |-> [name \in TaskNames |->
                                     RunAlone(started[name], sky)],
                       result |-> None])
    /\ UNCHANGED <<vocVars, voidVars, scan, eclIn, eclOut, signIn, signOut,
                   push>>

\* one detector resumed at the await it stands at
Resume(name) ==
    /\ ~IsNull(planetEvents)
    /\ Val(planetEvents).tasks[name].pc # "done"
    /\ planetEvents' =
          Some([Val(planetEvents) EXCEPT !.tasks =
                   AfterAwait(@, name,
                              TaskStep(@[name], Val(planetEvents).sky))])
    /\ UNCHANGED <<vocVars, voidVars, scan, eclIn, eclOut, signIn, signOut,
                   push>>

\* part_002 lines 202-207: Promise.all resolves when both lists are there
ReturnPlanetEvents ==
    /\ ~IsNull(planetEvents)
    /\ IsNull(Val(planetEvents).result)
    /\ \A name \in TaskNames : Val(planetEvents).tasks[name].pc = "done"
    /\ planetEvents' =
          Some([Val(planetEvents) EXCEPT !.result =
                   Some([name \in TaskNames |->
                            Val(Val(planetEvents).tasks[name].sc).events])])
    /\ UNCHANGED <<vocVars, voidVars, scan, eclIn, eclOut, signIn, signOut,
                   push>>

PlanetEventsNext ==
    \/ CallFindPlanetEvents
    \/ \E name \in TaskNames : Resume(name)
    \/ ReturnPlanetEvents

SpecPlanetEvents == Init /\ [][PlanetEventsNext]_vars

----------------------------------------------------------------------------
(* The push-notify batch: main run by cron against one scheduled event.     *)
(* Times are minutes since the epoch, UTC.                                  *)

MinutesPerHour == 60
MinutesPerDay == HoursPerDay * MinutesPerHour

\* push-notify.js line 39
JST_OFFSET == 9 * MinutesPerHour

\* the first sendable hour of push-notify.js line 118
FirstSendableHour == 8

\* push-notify.js lines 230 and 239: 30 * 60 * 1000 ms
NotifyWindow == 30

\* push-notify.js lines 223 and 250
RetroLeadHours == 320
DirectLeadHours == 72

\* push-notify.js line 333
SentLogDays == 30

\* the clock moves in steps of this many minutes
PushTick == 15

\* the clock runs from this many minutes before the event to as many after
PushHorizon == 60

MaxSubscribers == 2

\* station times: twenty past every hour of one day
EventTimes == {h * MinutesPerHour + 20 : h \in 0..(HoursPerDay - 1)}

ScheduledEvents ==
    [planet : {"mercury", "venus"},
     type : {"station_retrograde", "station_direct"},
     utc : EventTimes]

\* push-notify.js lines 75-85 and 115-117: the JST hour of a time
JstHour(t) == ((t + JST_OFFSET) % MinutesPerDay) \div MinutesPerHour

\* push-notify.js lines 88-96: the JST date of a time, as a day number
jstDateKey(t) == (t + JST_OFFSET) \div MinutesPerDay

isNowSendable_noGate(now) == JstHour(now) >= 0 /\ JstHour(now) <= 23

\* push-notify.js lines 114-119
isNowSendable(now) == JstHour(now) >= FirstSendableHour /\ JstHour(now) <= 23

\* push-notify.js lines 223-228 and 250-255: 12:00 JST of the JST date that
\* lies leadHours before the event, as a UTC time
NoonBefore(evMs, leadHours) ==
    jstDateKey(evMs - leadHours * MinutesPerHour) * MinutesPerDay
    + 12 * MinutesPerHour - JST_OFFSET

Within(nowMs, t) ==
    nowMs - t <= NotifyWindow /\ t - nowMs <= NotifyWindow

StartTag(ev) == [kind |-> "mercury-retro-start", date |-> jstDateKey(ev.utc)]

\* push-notify.js lines 212-268
checkMercuryRetroNotifications(ev, nowMs) ==
    IF ev.planet # "mercury" THEN <<>>
    ELSE IF ev.type = "station_retrograde"
    THEN (IF Within(nowMs, NoonBefore(ev.utc, RetroLeadHours))
          THEN <<[kind |-> "mercury-retro-pre", date |-> jstDateKey(ev.utc)]>>
          ELSE <<>>)
         \o (IF Within(nowMs, ev.utc) THEN <<StartTag(ev)>> ELSE <<>>)
    ELSE IF ev.type = "station_direct"
    THEN IF Within(nowMs, NoonBefore(ev.utc, DirectLeadHours))
         THEN <<[kind |-> "mercury-direct-pre", date |-> jstDateKey(ev.utc)]>>
         ELSE <<>>
    ELSE <<>>

\* push-notify.js lines 299-321: the tags sent, in order, and the log after
RECURSIVE Broadcast(_, _, _, _)
Broadcast(notifications, sentLog, today, sent) ==
    IF notifications = <<>> THEN [sentLog |-> sentLog, sent |-> sent]
    ELSE IF Head(notifications) \in DOMAIN sentLog
    THEN Broadcast(Tail(notifications), sentLog, today, sent)
    ELSE Broadcast(Tail(notifications),
                   [tag \in DOMAIN sentLog \cup {Head(notifications)} |->
                       IF tag = Head(notifications) THEN today
                       ELSE sentLog[tag]],
                   today, Append(sent, Head(notifications)))

Cleaned_sameDay(sentLog, nowMs) ==
    LET today == nowMs \div MinutesPerDay
        kept == {tag \in DOMAIN sentLog : ~(sentLog[tag] < today)}
    IN  [tag \in kept |-> sentLog[tag]]

\* push-notify.js lines 332-336
Cleaned(sentLog, nowMs) ==
    LET thirtyDaysAgo == (nowMs - SentLogDays * MinutesPerDay) \div MinutesPerDay
        kept == {tag \in DOMAIN sentLog : ~(sentLog[tag] < thirtyDaysAgo)}
    IN  [tag \in kept |-> sentLog[tag]]

PushInit ==
    /\ push \in {Some([ev |-> ev,
                       now |-> ev.utc - PushHorizon,
                       subscriptions |-> n,
                       sentLog |-> <<>>,
                       broadcast |-> <<>>,
                       ranInWindow |-> FALSE]) :
                   ev \in ScheduledEvents, n \in 0..MaxSubscribers}
    /\ planetEvents = None
    /\ signIn = None
    /\ signOut = None
    /\ vocIn = None
    /\ vocOut = None
    /\ scan = None
    /\ eclIn = None
    /\ eclOut = None
    /\ VoidIdle

\* time passes between two runs of cron
PushClock ==
    /\ ~IsNull(push)
    /\ Val(push).now + PushTick <= Val(push).ev.utc + PushHorizon
    /\ push' = Some([Val(push) EXCEPT !.now = @ + PushTick])
    /\ UNCHANGED <<vocVars, voidVars, scan, eclIn, eclOut, signIn, signOut,
                   planetEvents>>

\* push-notify.js lines 343-374: one run of main, with no void to announce
\* in current.json; lines 286-339: broadcastNotifications, any number of
\* the subscriptions found expired
RunBatch ==
    /\ ~IsNull(push)
    /\ LET b == Val(push)
           ran == [b EXCEPT !.ranInWindow =
                      @ \/ (b.subscriptions > 0 /\ Within(b.now, b.ev.utc))]
           notifications == checkMercuryRetroNotifications(b.ev, b.now)
           out == Broadcast(notifications, b.sentLog,
                            b.now \div MinutesPerDay, <<>>)
       IN  IF ~isNowSendable(b.now)
           THEN push' = Some(ran)
           ELSE IF notifications = <<>> \/ b.subscriptions = 0
           THEN push' = Some(ran)
           ELSE \E expired \in 0..(IF out.sent = <<>> THEN 0
                                   ELSE b.subscriptions) :
                   push' = Some([ran EXCEPT
                                   !.sentLog = Cleaned(out.sentLog, b.now),
                                   !.broadcast = @ \o out.sent,
                                   !.subscriptions = @ - expired])
    /\ UNCHANGED <<vocVars, voidVars, scan, eclIn, eclOut, signIn, signOut,
                   planetEvents>>

PushNext ==
    \/ PushClock
    \/ RunBatch

SpecPush == PushInit /\ [][PushNext]_vars

----------------------------------------------------------------------------
(* The push-notify batch and the voids of current.json.                     *)

\* push-notify.js line 143: shorter voids are not announced
VoidMinHours == 3

\* push-notify.js line 145
VoidLeadHours == 2

\* push-notify.js lines 159 and 163: the hour a void has to reach
MorningHour == 9

\* push-notify.js line 170
LateHour == 23

\* README, Production: "5 * * * *", the minute of the hourly run
CronMinute == 5

\* the clock of a batch that runs at any time moves in steps of this many
\* minutes
VoidTick == 5

\* the clock starts this many hours before the void does
VoidHorizonHours == 10

\* and stops this many hours after the void started
VoidAfterHours == 1

\* starts of the voids: these minutes past every hour of one day
StartMinutes == {0, 35, 40}

VoidStarts ==
    {h * MinutesPerHour + m : h \in 0..(HoursPerDay - 1), m \in StartMinutes}

\* their lengths, in hours
VoidLengths == {2, 3, 6, 26}

\* the entries of upcomingVoids in current.json
UpcomingVoids ==
    {[startUtc |-> s, endUtc |-> s + d * MinutesPerHour] :
        s \in VoidStarts, d \in VoidLengths}

\* push-notify.js lines 108-111
isNightHourJst(t) == JstHour(t) < 8

\* push-notify.js lines 166-172 and 178-184: hour o'clock JST of the JST date
\* of startUtc moved by dayShift days, as a UTC time
JstClock(startUtc, dayShift, hour) ==
    (jstDateKey(startUtc) + dayShift) * MinutesPerDay
    + hour * MinutesPerHour - JST_OFFSET

sendAtMs_sameDay23(v) ==
    LET twoHoursBefore == v.startUtc - VoidLeadHours * MinutesPerHour
        startJstH == JstHour(v.startUtc)
        endJstH == JstHour(v.endUtc)
    IN  IF v.endUtc - v.startUtc < VoidMinHours * MinutesPerHour THEN None
        ELSE IF ~isNightHourJst(twoHoursBefore) THEN Some(twoHoursBefore)
        ELSE IF startJstH < 8 /\ endJstH < MorningHour THEN None
        ELSE IF startJstH < 8 /\ endJstH >= MorningHour
        THEN Some(JstClock(v.startUtc, 0, LateHour))
        ELSE Some(JstClock(v.startUtc, 0, 8))

\* push-notify.js lines 138-188: the send time checkVoidNotifications gives
\* a void, null for a void it passes over
sendAtMs(v) ==
    LET twoHoursBefore == v.startUtc - VoidLeadHours * MinutesPerHour
        startJstH == JstHour(v.startUtc)
        endJstH == JstHour(v.endUtc)
    IN  IF v.endUtc - v.startUtc < VoidMinHours * MinutesPerHour THEN None
        ELSE IF ~isNightHourJst(twoHoursBefore) THEN Some(twoHoursBefore)
        ELSE IF startJstH < 8 /\ endJstH < MorningHour THEN None
        ELSE IF startJstH < 8 /\ endJstH >= MorningHour
        THEN Some(JstClock(v.startUtc, -1, LateHour))
        ELSE Some(JstClock(v.startUtc, 0, 8))

\* push-notify.js line 194
VoidTag(v) ==
    [kind |-> "void", date |-> jstDateKey(v.startUtc),
     hour |-> JstHour(v.startUtc)]

\* push-notify.js lines 133-203
RECURSIVE checkVoidNotifications(_, _)
checkVoidNotifications(voids, nowMs) ==
    IF voids = <<>> THEN <<>>
    ELSE (IF ~IsNull(sendAtMs(Head(voids)))
             /\ Within(nowMs, Val(sendAtMs(Head(voids))))
          THEN <<VoidTag(Head(voids))>>
          ELSE <<>>)
         \o checkVoidNotifications(Tail(voids), nowMs)

\* push-notify.js lines 343-376 and 286-339: what one run of main at b.now
\* can leave behind, with no event in schedule.json; any number of the
\* subscriptions may be found expired. ranLate notes a run, with a
\* subscriber, within 30 minutes of 23:00 JST of the day before the void
MainOutcomes(b) ==
    LET notifications == checkVoidNotifications(b.upcomingVoids, b.now)
        out == Broadcast(notifications, b.sentLog,
                         b.now \div MinutesPerDay, <<>>)
        ran == [b EXCEPT !.ranLate =
                   @ \/ (b.subscriptions > 0
                         /\ Within(b.now, JstClock(b.upcomingVoids[1].startUtc,
                                                   -1, LateHour)))]
    IN  IF ~isNowSendable(b.now) THEN {ran}
        ELSE IF notifications = <<>> \/ b.subscriptions = 0 THEN {ran}
        ELSE {[ran EXCEPT !.sentLog = Cleaned(out.sentLog, b.now),
                          !.broadcast = @ \o out.sent,
                          !.subscriptions = @ - expired] :
                 expired \in 0..(IF out.sent = <<>> THEN 0
                                 ELSE b.subscriptions)}

VoidBatches(first) ==
    {Some([upcomingVoids |-> <<v>>,
           now |-> first[v],
           subscriptions |-> n,
           sentLog |-> <<>>,
           broadcast |-> <<>>,
           ranLate |-> FALSE]) :
        v \in UpcomingVoids, n \in 0..MaxSubscribers}

VoidIdleRest ==
    /\ planetEvents = None
    /\ signIn = None
    /\ signOut = None
    /\ vocIn = None
    /\ vocOut = None
    /\ scan = None
    /\ eclIn = None
    /\ eclOut = None
    /\ VoidIdle

\* a batch that may run at any tick of the clock
VoidPushInit ==
    /\ push \in VoidBatches([v \in UpcomingVoids |->
                                v.startUtc - VoidHorizonHours * MinutesPerHour])
    /\ VoidIdleRest

VoidClock ==
    /\ ~IsNull(push)
    /\ Val(push).now + VoidTick
         <= Val(push).upcomingVoids[1].startUtc + VoidAfterHours * MinutesPerHour
    /\ push' = Some([Val(push) EXCEPT !.now = @ + VoidTick])
    /\ UNCHANGED <<vocVars, voidVars, scan, eclIn, eclOut, signIn, signOut,
                   planetEvents>>

RunVoidBatch ==
    /\ ~IsNull(push)
    /\ push' \in {Some(b) : b \in MainOutcomes(Val(push))}
    /\ UNCHANGED <<vocVars, voidVars, scan, eclIn, eclOut, signIn, signOut,
                   planetEvents>>

VoidPushNext ==
    \/ VoidClock
    \/ RunVoidBatch

SpecVoidPush == VoidPushInit /\ [][VoidPushNext]_vars

\* the batch under cron: the first run is the first minute 5 that is less
\* than an hour after the clock's start
CronInit ==
    /\ push \in VoidBatches([v \in UpcomingVoids |->
          ((v.startUtc - VoidHorizonHours * MinutesPerHour) \div MinutesPerHour)
              * MinutesPerHour + CronMinute - MinutesPerHour])
    /\ VoidIdleRest

\* README, Production: an hour passes and cron runs main
CronRun ==
    /\ ~IsNull(push)
    /\ Val(push).now + MinutesPerHour
         <= Val(push).upcomingVoids[1].startUtc + VoidAfterHours * MinutesPerHour
    /\ push' \in {Some(b) :
                    b \in MainOutcomes([Val(push) EXCEPT
                                          !.now = @ + MinutesPerHour])}
    /\ UNCHANGED <<vocVars, voidVars, scan, eclIn, eclOut, signIn, signOut,
                   planetEvents>>

CronNext == CronRun

SpecCron == CronInit /\ [][CronNext]_vars

----------------------------------------------------------------------------
(* The subscription server (push-server.js) and subscriptions.json, the     *)
(* file it shares with the push-notify batch.                               *)

\* the store holds at most this many entries
MaxStore == 3

\* a run of the batch has at most this many notifications to broadcast
MaxNotifications == 2

\* the value of body.endpoint after JSON.parse: a string, an array holding
\* one string, or undefined when the body has no such key
Undefined == [kind |-> "undefined", text |-> ""]

StringEndpoints == [kind : {"string"}, text : {"", "a", "b"}]

ArrayEndpoints == [kind : {"array"}, text : {"a"}]

\* request bodies that come from PushSubscription.toJSON, or lack the key
StringBodies == [endpoint : StringEndpoints \cup {Undefined}]

\* any JSON object
JsonBodies == [endpoint : StringEndpoints \cup ArrayEndpoints \cup {Undefined}]

\* JavaScript's ===: two arrays are equal only when they are the same object,
\* and a parsed body is never the object read from the file
StrictEqualJson(a, b) == a.kind # "array" /\ b.kind # "array" /\ a = b

\* part_004 line 83: !body.endpoint is false
Truthy(endpoint) ==
    \/ endpoint.kind = "array"
    \/ endpoint.kind = "string" /\ endpoint.text # ""

\* part_004 line 88
Exists(subs, body) ==
    \E k \in 1..Len(subs) : StrictEqualJson(subs[k].endpoint, body.endpoint)

\* part_004 line 106
Filtered(subs, body) ==
    LET keep(s) == ~StrictEqualJson(s.endpoint, body.endpoint)
    IN  SelectSeq(subs, keep)

\* push-notify.js lines 325-327: the list without the entries at the indices
RECURSIVE Spliced(_, _)
Spliced(subscriptions, expiredIndices) ==
    IF subscriptions = <<>> THEN <<>>
    ELSE LET k == Len(subscriptions)
             front == Spliced(SubSeq(subscriptions, 1, k - 1), expiredIndices)
         IN  IF k \in expiredIndices THEN front
             ELSE Append(front, subscriptions[k])

\* the rest of the model stands still
ServerFrame ==
    UNCHANGED <<vocVars, voidVars, scan, eclIn, eclOut, signIn, signOut,
                planetEvents>>

\* the file as deployed: no two entries with the same endpoint
Stores ==
    {<<>>, <<[endpoint |-> [kind |-> "string", text |-> "a"]]>>,
     <<[endpoint |-> [kind |-> "string", text |-> "a"]],
       [endpoint |-> [kind |-> "string", text |-> "b"]]>>}

\* accepted: the endpoints POST /subscribe has answered 200 for and that were
\* neither unsubscribed nor reported expired since
ServerInit ==
    /\ push \in {Some([store |-> st,
                       last |-> None,
                       batch |-> None,
                       accepted |-> {}]) : st \in Stores}
    /\ VoidIdleRest

\* part_004 lines 95-96 and 110-111: a body that is not JSON
InvalidJson(route) ==
    /\ ~IsNull(push)
    /\ push' = Some([Val(push) EXCEPT
                       !.last = Some([route |-> route, body |-> None,
                                      status |-> 400,
                                      before |-> Val(push).store])])
    /\ ServerFrame

\* part_004 lines 88-94
SubscribeSave(b, h) ==
    [b EXCEPT !.store = IF Exists(h.subs, h.body) THEN @
                        ELSE Append(h.subs, h.body),
              !.accepted = @ \cup {h.body.endpoint}]

\* part_004 lines 106-109
UnsubscribeSave(b, h) ==
    [b EXCEPT !.store = Filtered(h.subs, h.body),
              !.accepted = @ \ {h.body.endpoint}]

\* part_004 lines 80-99 and 102-114: one request handled; between
\* loadSubscriptions and saveSubscriptions the handler does not wait, and a
\* subscribe without an endpoint is answered before the file is read
ServerRequest(route, body) ==
    /\ ~IsNull(push)
    /\ route = "subscribe" => Len(Val(push).store) < MaxStore
    /\ LET h == [route |-> route, body |-> body, subs |-> Val(push).store]
           saved == IF route = "subscribe" THEN SubscribeSave(Val(push), h)
                    ELSE UnsubscribeSave(Val(push), h)
       IN  IF route = "subscribe" /\ ~Truthy(body.endpoint)
           THEN push' = Some([Val(push) EXCEPT
                                !.last = Some([route |-> route,
                                               body |-> Some(body),
                                               status |-> 400,
                                               before |-> Val(push).store])])
           ELSE push' = Some([saved EXCEPT
                                !.last = Some([route |-> route,
                                               body |-> Some(body),
                                               status |-> 200,
                                               before |-> Val(push).store])])
    /\ ServerFrame

Routes == {"subscribe", "unsubscribe"}

ServerNext ==
    \/ \E route \in Routes : InvalidJson(route)
    \/ \E route \in Routes, body \in JsonBodies : ServerRequest(route, body)

SpecServer == ServerInit /\ [][ServerNext]_vars

\* push-notify.js lines 286-297: broadcastNotifications reads the file
BatchStart ==
    /\ ~IsNull(push)
    /\ IsNull(Val(push).batch)
    /\ Val(push).store # <<>>
    /\ \E n \in 1..MaxNotifications :
          push' = Some([Val(push) EXCEPT
                          !.batch = Some([subscriptions |-> Val(push).store,
                                          left |-> n,
                                          i |-> 1,
                                          expiredIndices |-> {}])])
    /\ ServerFrame

\* push-notify.js lines 308-318 and 272-284: one send and its result
BatchSend ==
    /\ ~IsNull(push)
    /\ ~IsNull(Val(push).batch)
    /\ Val(Val(push).batch).left > 0
    /\ LET t == Val(Val(push).batch)
           last == t.i = Len(t.subscriptions)
           next == [t EXCEPT !.i = IF last THEN 1 ELSE @ + 1,
                             !.left = IF last THEN @ - 1 ELSE @]
       IN  \E outcome \in {"sent", "expired", "failed"} :
              push' = Some(
                 IF outcome = "expired"
                 THEN [Val(push) EXCEPT
                         !.batch = Some([next EXCEPT
                                           !.expiredIndices = @ \cup {t.i}]),
                         !.accepted = @ \ {t.subscriptions[t.i].endpoint}]
                 ELSE [Val(push) EXCEPT !.batch = Some(next)])
    /\ ServerFrame

\* push-notify.js lines 323-330
BatchFinish(b, t) ==
    IF t.expiredIndices # {}
    THEN [b EXCEPT !.store = Spliced(t.subscriptions, t.expiredIndices)]
    ELSE b

\* push-notify.js lines 323-339: the end of broadcastNotifications
BatchSave ==
    /\ ~IsNull(push)
    /\ ~IsNull(Val(push).batch)
    /\ Val(Val(push).batch).left = 0
    /\ push' = Some([BatchFinish(Val(push), Val(Val(push).batch))
                       EXCEPT !.batch = None])
    /\ ServerFrame

ServerBatchNext ==
    \/ \E route \in Routes : InvalidJson(route)
    \/ \E route \in Routes, body \in StringBodies : ServerRequest(route, body)
    \/ BatchStart
    \/ BatchSend
    \/ BatchSave

SpecServerBatch == ServerInit /\ [][ServerBatchNext]_vars

----------------------------------------------------------------------------
(* Claims about findVoidPeriods                                             *)

Returned == IF pc = "done" THEN Val(result).returned ELSE <<>>

Ran == ~IsNull(call) /\ nSamples > 0

\* the sky the ephemeris showed at a sampled time
VoidAt(t) == oracle[CellOf(t)] # "aspected"

\* the call returned with its last period left open at the range end
LeftOpen == pc = "done" /\ ~IsNull(currentVoid)

Last(seq) == seq[Len(seq)]

\* C1: the periods one call returns are in non-decreasing startTime order
\* and do not overlap: each endTime is <= the next startTime.
C1_Ordered ==
    \A i \in 1..(Len(Returned) - 1) :
        /\ Returned[i].startJd <= Returned[i + 1].startJd
        /\ Returned[i].endJd <= Returned[i + 1].startJd

C1_Witness == Len(Returned) >= 2 /\ IsNull(currentVoid)

\* C2: every returned period has endTime >= startTime and a durationHours
\* of 24 * (endTime - startTime) >= 0 (durationHours is kept in 1/Day hours,
\* as the Julian days are kept in 1/Day days).
C2_Duration ==
    \A i \in 1..Len(Returned) :
        /\ Returned[i].endJd >= Returned[i].startJd
        /\ Returned[i].durationHours
              = HoursPerDay * (Returned[i].endJd - Returned[i].startJd)
        /\ Returned[i].durationHours >= 0

\* a period started before the range and closed by a flip, and a later one
\* left open and closed by the exit estimate
C2_Witness ==
    /\ LeftOpen
    /\ Len(Returned) >= 2
    /\ Returned[1].startedBeforeRangeStart
    /\ Last(Returned).endJd > Val(call).jdEnd

\* C4: with a void start the backward search samples only start - k * step
\* not earlier than start - 5, stops at the first non-void sample and bisects
\* between it and the next later sample; the first period then has
\* startedBeforeRangeStart, a startTime in [start - 5, start], and
\* startEstimated = false exactly when a non-void sample was found (else
\* startEstimated = true and startTime = start).
C4_BackwardSearch ==
    Ran =>
      LET start == Val(call).jdStart
          nonVoid == {t \in backSampled : ~VoidAt(t)}
      IN  /\ \A t \in backSampled :
                /\ t >= start - maxBacktrackDays * Day
                /\ \E k \in 1..(maxBacktrackDays * Day) : t = start - k * stepDays
                /\ ~VoidAt(t) => \A u \in backSampled : t <= u
          /\ ~VoidAt(start) => backSampled = {}
          /\ (pc = "bisect" /\ Val(bis).caller = "ongoing") =>
                /\ nonVoid = {Val(bis).jdA}
                /\ Val(bis).jdB = Val(bis).jdA + stepDays
          /\ (pc = "done" /\ VoidAt(start)) =>
                /\ Len(Returned) >= 1
                /\ Returned[1].startedBeforeRangeStart
                /\ Returned[1].startJd >= start - maxBacktrackDays * Day
                /\ Returned[1].startJd <= start
                /\ ~Returned[1].startEstimated <=> nonVoid # {}
                /\ Returned[1].startEstimated => Returned[1].startJd = start
                /\ \A t \in nonVoid :
                      /\ Returned[1].startJd >= t
                      /\ Returned[1].startJd <= t + stepDays

\* a backward search that met a non-void sample after at least one void one
C4_Witness ==
    /\ pc = "done"
    /\ Ran
    /\ Cardinality(backSampled) >= 2
    /\ Len(Returned) >= 1
    /\ ~Returned[1].startEstimated
    /\ Returned[1].startedBeforeRangeStart

CellTicks == CellHours * TicksPerHour

\* what bisection leaves between its result and the true boundary
Tolerance == 1 + stepDays \div (2 ^ (VoidIterations + 1))

\* the ephemeris, as far as it was sampled, is void on cells c1..c2 only
VoidOnlyOn(c1, c2) ==
    \A c \in DOMAIN oracle : (oracle[c] # "aspected") <=> (c1 <= c /\ c <= c2)

Near(x, y) == Abs(x - y) <= Tolerance

\* the coarse samples of the forward scan
CoarseSamples ==
    {Val(call).jdStart + k * stepDays :
        k \in 0..((Val(call).jdEnd - Val(call).jdStart) \div stepDays)}

OnePeriodNear(a, b) ==
    /\ Len(Returned) = 1
    /\ Near(Returned[1].startJd, a)
    /\ Near(Returned[1].endJd, b)

\* C5 as stated: if the oracle is void exactly on [a, b] with
\* start < a < b < end, exactly one period is returned, with startTime
\* within the bisection tolerance of a and endTime within it of b.
C5_AnyInterval ==
    (pc = "done" /\ Ran) =>
      \A c1, c2 \in CellOf(Val(call).jdStart)..CellOf(Val(call).jdEnd) :
        LET a == c1 * CellTicks
            b == (c2 + 1) * CellTicks - 1
        IN  (c1 <= c2 /\ VoidOnlyOn(c1, c2)
             /\ Val(call).jdStart < a /\ b < Val(call).jdEnd)
            => OnePeriodNear(a, b)

\* C5 amended: the same, provided a coarse sample start + k * step falls in
\* [a, b] and another one, not later than end, falls after b.
C5_SampledInterval ==
    (pc = "done" /\ Ran) =>
      \A c1, c2 \in CellOf(Val(call).jdStart)..CellOf(Val(call).jdEnd) :
        LET a == c1 * CellTicks
            b == (c2 + 1) * CellTicks - 1
        IN  (c1 <= c2 /\ VoidOnlyOn(c1, c2)
             /\ Val(call).jdStart < a /\ b < Val(call).jdEnd
             /\ \E t \in CoarseSamples : a <= t /\ t <= b
             /\ \E u \in CoarseSamples : b < u)
            => OnePeriodNear(a, b)

\* a void interval strictly inside the range, met by a coarse sample
C5_Witness ==
    /\ pc = "done"
    /\ Ran
    /\ Len(Returned) = 1
    /\ ~Returned[1].startedBeforeRangeStart
    /\ IsNull(currentVoid)
    /\ \E c1, c2 \in CellOf(Val(call).jdStart)..CellOf(Val(call).jdEnd) :
          /\ c1 <= c2
          /\ VoidOnlyOn(c1, c2)
          /\ OnePeriodNear(c1 * CellTicks, (c2 + 1) * CellTicks - 1)

\* C6: when the scan ends with a void open, exactly one further period is
\* appended, last; its endTime is end + daysToExit when isVoid at end is void
\* with a finite daysToExit, and exactly end otherwise.
C6_OpenPeriodEnd ==
    LeftOpen =>
      LET st == Val(lastStatus)
          jdEnd == Val(call).jdEnd
      IN  /\ Last(Returned).startJd = Val(currentVoid).startJd
          /\ \A i \in 1..(Len(Returned) - 1) :
                Returned[i].endJd <= Last(Returned).startJd
          /\ Last(Returned).endJd =
                IF st.isVoid /\ ~IsNull(st.daysToSignExit)
                THEN jdEnd + DaysToTicks(Val(st.daysToSignExit))
                ELSE jdEnd

\* C7: a call with end <= start returns the empty list and takes no sample.
C7_EmptyRange ==
    (~IsNull(call) /\ Val(call).jdEnd <= Val(call).jdStart) =>
        /\ pc = "done"
        /\ result = Some([returned |-> <<>>])
        /\ nSamples = 0
        /\ oracle = <<>>

C7_Witness ==
    /\ pc = "done"
    /\ Val(call).jdEnd <= Val(call).jdStart
    /\ Val(call).stepHours <= 0

Thrown == pc = "error" /\ ~IsNull(result) /\ "thrown" \in DOMAIN Val(result)

\* C8 as stated: a call with a zero or negative step is rejected with an
\* error, for every start and end.
C8_AnyRange ==
    (~IsNull(call) /\ Val(call).stepHours <= 0) => Thrown

\* C8 amended: a call with a zero or negative step and end > start is
\* rejected with an error.
C8_PositiveRange ==
    (~IsNull(call) /\ Val(call).stepHours <= 0
     /\ Val(call).jdEnd > Val(call).jdStart) => Thrown

C8_Witness == Thrown /\ Val(call).stepHours = 0

\* what C10 asks of every state
ZeroSpeedSafe ==
    /\ (~IsNull(lastStatus) /\ Val(lastStatus).moonSpeed = 0) =>
          /\ Val(lastStatus).isVoid
          /\ IsNull(Val(lastStatus).daysToSignExit)
          /\ IsNull(Val(lastStatus).voidEndsAtJd)
          /\ IsNull(Val(lastStatus).voidEndsAtUtc)
    /\ pc = "error" => Val(call).stepHours <= 0
    /\ (LeftOpen /\ Val(lastStatus).moonSpeed = 0) =>
          Last(Returned).endJd = Val(call).jdEnd

\* C10: a Moon speed of zero throws nothing: the status is void with
\* daysToExit, voidEndsAtJd and voidEndsAtUtc null, a scan that sampled such
\* a sky goes on to return, and a period left open under it is closed at end.
C10_ZeroSpeed ==
    /\ []ZeroSpeedSafe
    /\ [](((~IsNull(lastStatus) /\ Val(lastStatus).moonSpeed = 0)
           /\ pc \in {"back", "scan", "bisect"}) => <>(pc = "done"))

\* a scan that saw the Moon stand still at every sample, finished
C10_Witness ==
    /\ LeftOpen
    /\ nSamples >= 4
    /\ \A c \in DOMAIN oracle : oracle[c] = "stationary"
    /\ Val(lastStatus).moonSpeed = 0

----------------------------------------------------------------------------
(* The point-in-time classifier applied to bounded inputs                   *)

MaxPlanets == 2

MoonLons == {0, 10, 29, 350}
MoonSpeeds == {-12, 0, 13}
PlanetLons == {0, 10, 30, 100}
PlanetSpeeds == {-1, 0, 1}

Planets == [longitude : PlanetLons, speed : PlanetSpeeds]

PlanetLists ==
    UNION {[1..k -> Planets] : k \in 1..MaxPlanets}

VocInit ==
    /\ vocIn \in [moonLon : MoonLons, moonSpeed : MoonSpeeds,
                  planets : PlanetLists]
    /\ vocOut = None
    /\ VoidIdle
    /\ EventIdle

CallGetVoidOfCourseStatus ==
    /\ vocOut = None
    /\ vocOut' = Some(getVoidOfCourseStatus(vocIn.moonLon, vocIn.moonSpeed,
                                            vocIn.planets))
    /\ UNCHANGED <<vocIn, voidVars, eventVars>>

VocNext == CallGetVoidOfCourseStatus

SpecVoc == VocInit /\ [][VocNext]_vars

\* one body, which may move faster than the Moon
FastPlanetLons == {0, 5, 11, 28, 31, 100, 349}
FastPlanetSpeeds == {-20, -1, 20}

VocFastInit ==
    /\ vocIn \in [moonLon : MoonLons, moonSpeed : MoonSpeeds,
                  planets : {<<planet>> :
                                planet \in [longitude : FastPlanetLons,
                                            speed : FastPlanetSpeeds]}]
    /\ vocOut = None
    /\ VoidIdle
    /\ EventIdle

SpecVocFast == VocFastInit /\ [][VocNext]_vars

----------------------------------------------------------------------------
(* lunar-phases.js: checkEclipse, called on its own                         *)

\* the unit in the last place of a longitude between 64 and 128 degrees:
\* adding 180 to such a longitude can lose it
Fine == Q(1, 2 ^ (SignificandBits - 7))

PhaseTypes == {"new_moon", "full_moon", "first_quarter"}

\* longitudes of the Sun and the Moon, in [0, 360)
EclBodyLons ==
    {QInt(0), QInt(12), Q(25, 2), Q(37, 2), QInt(19), Q(237, 2),
     QSub(Q(237, 2), Fine), QSub(Q(237, 2), QNeg(Fine)), Q(323, 2), QInt(168),
     Q(683, 2)}

\* longitudes of the lunar node, in [0, 360)
EclNodeLons ==
    {QInt(0), QInt(100), QAddInt(Fine, 100), QInt(180), QInt(280),
     Q(719, 2)}

EclInit ==
    /\ eclIn \in {Some(i) : i \in [phaseType : PhaseTypes,
                                    sun : EclBodyLons,
                                    moon : EclBodyLons,
                                    node : EclNodeLons]}
    /\ eclOut = None
    /\ vocIn = None
    /\ vocOut = None
    /\ scan = None
    /\ SignIdle
    /\ VoidIdle

CallCheckEclipse ==
    /\ ~IsNull(eclIn)
    /\ eclOut = None
    /\ eclOut' = Some(checkEclipse(Val(eclIn).phaseType,
                                   [longitude |-> Val(eclIn).sun],
                                   [longitude |-> Val(eclIn).moon],
                                   [longitude |-> Val(eclIn).node]))
    /\ UNCHANGED <<eclIn, vocVars, voidVars, scan, signIn, signOut,
                   planetEvents, push>>

EclNext == CallCheckEclipse

SpecEclipse == EclInit /\ [][EclNext]_vars

----------------------------------------------------------------------------
(* getPlanetStatus called on its own, on any longitude the ephemeris may    *)
(* hand it                                                                  *)

MaxLongitude == 400

\* longitudes below 0, in [0, 360) and from 360 up
Longitudes == (-MaxLongitude)..MaxLongitude

SignSpeeds == {-1, 1}

\* part_002 lines 37-51, after calcPlanet (ephemeris.js lines 95-108)
getPlanetStatus(pos) ==
    [longitude |-> pos.longitude,
     speed |-> pos.speed,
     retrograde |-> pos.speed < 0,
     signIndex |-> getSignIndex(pos.longitude),
     degreeInSign |-> JsRem(pos.longitude, 30)]

SignInit ==
    /\ signIn \in {Some(pos) : pos \in [longitude : Longitudes,
                                        speed : SignSpeeds]}
    /\ signOut = None
    /\ planetEvents = None
    /\ push = None
    /\ vocIn = None
    /\ vocOut = None
    /\ scan = None
    /\ eclIn = None
    /\ eclOut = None
    /\ VoidIdle

CallGetPlanetStatus ==
    /\ ~IsNull(signIn)
    /\ signOut = None
    /\ signOut' = Some(getPlanetStatus(Val(signIn)))
    /\ UNCHANGED <<signIn, vocVars, voidVars, scan, eclIn, eclOut,
                   planetEvents, push>>

SignNext == CallGetPlanetStatus

SpecSign == SignInit /\ [][SignNext]_vars

----------------------------------------------------------------------------
(* Claims about the point-in-time classifier                                *)

\* The projected completion time of one target: null while every pass so
\* far discarded the target, else the estimate of the last pass that kept it.
RECURSIVE Projection(_, _, _, _, _, _)
Projection(iter, d, baseTarget, planetSpeed, moonLon, moonSpeed) ==
    IF iter >= RefinePasses THEN d
    ELSE LET prior == IF IsNull(d) THEN QInt(0) ELSE Val(d)
             target == QRem(QAddInt(QMulInt(prior, planetSpeed),
                                    baseTarget + 360), 360)
             moveNeeded == MoveNeeded(target, moonLon, moonSpeed)
         IN  IF QGtInt(moveNeeded, 180)
             THEN Projection(iter + 1, d, baseTarget, planetSpeed,
                             moonLon, moonSpeed)
             ELSE Projection(iter + 1,
                             Some(QDivInt(moveNeeded, Abs(moonSpeed))),
                             baseTarget, planetSpeed, moonLon, moonSpeed)

\* every (body, angle, direction) of a call, as <<planet, baseTarget>>
AspectCases(planets) ==
    {<<planets[p], Targets(planets[p], ASPECT_ANGLES[a])[t]>> :
        p \in 1..Len(planets), a \in 1..Len(ASPECT_ANGLES), t \in 1..2}

CompletionOf(c, in) ==
    Projection(0, None, c[2], c[1].speed, in.moonLon, in.moonSpeed)

ExitDays(in) == Q(DegreesToBoundary(in.moonLon, in.moonSpeed), Abs(in.moonSpeed))

\* some case completes at a time d with lo < d or lo <= d, d <= daysToExit,
\* the Moon at d still in its sign
SomeCaseCompletes(in, closedAtZero) ==
    /\ in.moonSpeed # 0
    /\ \E c \in AspectCases(in.planets) :
          LET d == CompletionOf(c, in)
          IN  /\ ~IsNull(d)
              /\ IF closedAtZero THEN QGeInt(Val(d), 0) ELSE QGtInt(Val(d), 0)
              /\ QLe(Val(d), ExitDays(in))
              /\ StillInSign(in.moonLon, in.moonSpeed, Val(d))

\* C9 as stated: isVoid returns not-void exactly when some body, angle and
\* direction has a completion time d in the closed interval [0, daysToExit]
\* with the Moon at d still within the current sign.
C9_ClosedInterval ==
    ~IsNull(vocOut) =>
        (~Val(vocOut).isVoid <=> SomeCaseCompletes(vocIn, TRUE))

\* C9 amended: isVoid returns not-void exactly when some body, angle and
\* direction has a completion time d in the half-open interval
\* (0, daysToExit] with the Moon at d still within the current sign.
C9_HalfOpenInterval ==
    ~IsNull(vocOut) =>
        (~Val(vocOut).isVoid <=> SomeCaseCompletes(vocIn, FALSE))

\* a call returned not-void on a case completing exactly at daysToExit, and
\* no case completes strictly inside the interval
C9_Witness ==
    /\ ~IsNull(vocOut)
    /\ ~Val(vocOut).isVoid
    /\ \A c \in AspectCases(vocIn.planets) :
          LET d == CompletionOf(c, vocIn)
          IN  (~IsNull(d) /\ QGtInt(Val(d), 0) /\ QLe(Val(d), ExitDays(vocIn))
               /\ StillInSign(vocIn.moonLon, vocIn.moonSpeed, Val(d)))
              => QEq(Val(d), ExitDays(vocIn))

\* C11: daysToExit is the distance to the upper sign bound (speed >= 0) or
\* the lower one (speed < 0) over |moonSpeed|, never negative; a Moon at 29
\* degrees moving +13 degrees a day gets daysToExit = 1/13, and is void when
\* no aspect perfects before the exit.
C11_DaysToExit ==
    ~IsNull(vocOut) =>
        LET daysToExit == Val(vocOut).daysToExit
            inSign == vocIn.moonLon % 30
        IN  /\ vocIn.moonSpeed # 0 =>
                  /\ ~IsNull(daysToExit)
                  /\ QGeInt(Val(daysToExit), 0)
                  /\ QEq(Val(daysToExit),
                         Q(IF vocIn.moonSpeed >= 0 THEN 30 - inSign
                           ELSE inSign, Abs(vocIn.moonSpeed)))
            /\ (vocIn.moonLon = 29 /\ vocIn.moonSpeed = 13) =>
                  /\ QEq(Val(daysToExit), Q(1, 13))
                  /\ ~SomeCaseCompletes(vocIn, FALSE) => Val(vocOut).isVoid

\* the Moon at 29 degrees, +13 degrees a day, found void with 1/13 day to go
C11_Witness ==
    /\ ~IsNull(vocOut)
    /\ vocIn.moonLon = 29
    /\ vocIn.moonSpeed = 13
    /\ Val(vocOut).isVoid
    /\ Val(vocOut).daysToExit = Some(Q(1, 13))

----------------------------------------------------------------------------
(* Claims about the scanners                                                *)

\* a scanner of the given routine has returned
ScanDone(routine) ==
    pc = "done" /\ ~IsNull(scan) /\ Val(scan).routine = routine

Events == Val(scan).events

Coarse == Val(scan).coarse

EventTypes == [i \in 1..Len(Events) |-> Events[i].type]

\* the time of the k-th coarse sample
CoarseJd(k) == Val(scan).jdStart + (k - 1) * Val(scan).stepDays

\* the station types the predicate speed >= 0 asks for, pair by pair
RECURSIVE PredicateFlips(_, _)
PredicateFlips(coarse, k) ==
    IF k > Len(coarse) THEN <<>>
    ELSE IF (coarse[k - 1].speed >= 0) /\ ~(coarse[k].speed >= 0)
         THEN <<"station_retrograde">> \o PredicateFlips(coarse, k + 1)
    ELSE IF ~(coarse[k - 1].speed >= 0) /\ (coarse[k].speed >= 0)
         THEN <<"station_direct">> \o PredicateFlips(coarse, k + 1)
    ELSE PredicateFlips(coarse, k + 1)

\* C12: findStations reports a station for every pair of consecutive coarse
\* samples on which the predicate speed >= 0 differs, and only for those:
\* station_retrograde for true -> false, station_direct for false -> true.
C12_PredicateStations ==
    ScanDone("stations") => EventTypes = PredicateFlips(Coarse, 2)

\* what bisectStation leaves between its result and the true boundary
ScanTolerance == 1 + Val(scan).stepDays \div (2 ^ StationIterations)

\* the ephemeris, as far as it was sampled, has positive speed before the
\* start of cell cT and negative speed from it on
SpeedFlipsAt(cT) ==
    \A c \in DOMAIN oracle :
        IF c < cT THEN oracle[c].speed > 0 ELSE oracle[c].speed < 0

\* exactly one station, retrograde, refined inside the coarse bracket that
\* holds T and up to the bisection tolerance of T
OneRetrogradeNear(T) ==
    /\ EventTypes = <<"station_retrograde">>
    /\ Val(scan).brackets[1][1] < T
    /\ T <= Val(scan).brackets[1][2]
    /\ Val(scan).brackets[1][1] <= Events[1].julday
    /\ Events[1].julday <= Val(scan).brackets[1][2]
    /\ Abs(Events[1].julday - T) <= ScanTolerance

\* C13 as stated: with speed positive before T and negative from T on, and
\* T in the interior of the range, findStations returns exactly one
\* station_retrograde and no station_direct, refined within the coarse
\* bracket that holds T and up to the bisection tolerance of T.
C13_AnyRange ==
    ScanDone("stations") =>
      \A cT \in CellOf(Val(scan).jdStart)..CellOf(Val(scan).jdEnd) :
        (SpeedFlipsAt(cT) /\ Val(scan).jdStart < cT * CellTicks
         /\ cT * CellTicks < Val(scan).jdEnd)
        => OneRetrogradeNear(cT * CellTicks)

\* C13 amended: the same, provided some coarse sample start + k * step, not
\* later than end, is at or after T.
C13_SampledAfter ==
    ScanDone("stations") =>
      \A cT \in CellOf(Val(scan).jdStart)..CellOf(Val(scan).jdEnd) :
        (SpeedFlipsAt(cT) /\ Val(scan).jdStart < cT * CellTicks
         /\ cT * CellTicks < Val(scan).jdEnd
         /\ \E k \in 1..Len(Coarse) : CoarseJd(k) >= cT * CellTicks)
        => OneRetrogradeNear(cT * CellTicks)

\* a reversal strictly between two coarse samples, found and refined
C13_Witness ==
    /\ ScanDone("stations")
    /\ Len(Coarse) >= 3
    /\ \E cT \in CellOf(Val(scan).jdStart)..CellOf(Val(scan).jdEnd) :
          /\ SpeedFlipsAt(cT)
          /\ OneRetrogradeNear(cT * CellTicks)
          /\ \A k \in 1..Len(Coarse) : CoarseJd(k) # cT * CellTicks

\* C14: if the speeds at all coarse samples have the same strict sign, the
\* result holds no station.
C14_NoReversal ==
    (ScanDone("stations")
     /\ (\/ \A k \in 1..Len(Coarse) : Coarse[k].speed > 0
         \/ \A k \in 1..Len(Coarse) : Coarse[k].speed < 0))
    => Events = <<>>

\* a scan of at least three samples, all retrograde
C14_Witness ==
    /\ ScanDone("stations")
    /\ Len(Coarse) >= 3
    /\ \A k \in 1..Len(Coarse) : Coarse[k].speed < 0
    /\ Events = <<>>

\* C15: no ingress record has fromSign equal to toSign.
C15_SignsDiffer ==
    (~IsNull(scan) /\ Val(scan).routine = "ingresses") =>
        \A i \in 1..Len(Events) : Events[i].fromSign # Events[i].toSign

\* a returned ingress whose refined-time sample is still in the old sign
C15_Witness ==
    /\ ScanDone("ingresses")
    /\ \E i \in 1..Len(Events) :
          getSignIndex(Events[i].longitude) = Events[i].fromSign

\* the coarse sample taken at time t
CoarseAt(t) ==
    Coarse[(t - Val(scan).jdStart) \div Val(scan).stepDays + 1]

\* C16: each ingress has the sign of the coarse sample before its flip as
\* fromSign and the sign of the coarse sample after it as toSign, whatever
\* the sample at the refined time shows; a pair of coarse samples in signs
\* 11 and 0 yields an ingress with fromSign = 11 and toSign = 0.
C16_CoarseSigns ==
    (~IsNull(scan) /\ Val(scan).routine = "ingresses") =>
        /\ \A i \in 1..Len(Events) :
              /\ Events[i].fromSign =
                    getSignIndex(CoarseAt(Val(scan).brackets[i][1]).longitude)
              /\ Events[i].toSign =
                    getSignIndex(CoarseAt(Val(scan).brackets[i][2]).longitude)
        /\ pc = "done" =>
              \A k \in 2..Len(Coarse) :
                 (getSignIndex(Coarse[k - 1].longitude) = 11
                  /\ getSignIndex(Coarse[k].longitude) = 0)
                 => \E i \in 1..Len(Events) :
                       /\ Val(scan).brackets[i] = <<CoarseJd(k - 1), CoarseJd(k)>>
                       /\ Events[i].fromSign = 11
                       /\ Events[i].toSign = 0

\* two ingresses in a row, the first across 360 -> 0, its refined-time
\* sample in another sign than its toSign
C16_Witness ==
    /\ ScanDone("ingresses")
    /\ Len(Events) >= 2
    /\ Events[1].fromSign = 11
    /\ Events[1].toSign = 0
    /\ getSignIndex(Events[1].longitude) # Events[1].toSign

\* the phase the claim asks of one pair of 1-day samples
PhaseOfPair(prev, curr) ==
    IF QGtInt(Elongation(prev), 300) /\ QLtInt(Elongation(curr), 60)
    THEN <<"new_moon">>
    ELSE IF QLtInt(Elongation(prev), 180) /\ QGeInt(Elongation(curr), 180)
    THEN <<"full_moon">>
    ELSE <<>>

RECURSIVE PhasesOfPairs(_, _)
PhasesOfPairs(coarse, k) ==
    IF k > Len(coarse) THEN <<>>
    ELSE PhaseOfPair(coarse[k - 1], coarse[k]) \o PhasesOfPairs(coarse, k + 1)

PhaseTolerance == 1 + Day \div (2 ^ 30)

NewMoonNear(T) ==
    \E i \in 1..Len(Events) :
        /\ Events[i].type = "new_moon"
        /\ Abs(Events[i].julday - T) <= PhaseTolerance

\* the elongation cycle of the linear oracle: 360 / (13 - 1) days
LinearCycle == (360 * Day) \div 12

----------------------------------------------------------------------------
(* Claims about checkEclipse                                                *)

EclReturned == ~IsNull(eclIn) /\ ~IsNull(eclOut)

\* the shorter arc between two longitudes, in the arithmetic of the program
ShorterArc(a, b) ==
    LET d == QAbs(Fl(QSub(a, b)))
    IN  QMin(d, Fl(QSub(QInt(360), d)))

\* the distance from lon to the nearer of node and node + 180
NearerNode(lon, node) ==
    QMin(ShorterArc(lon, node),
         ShorterArc(lon, QRem(Fl(QAddInt(node, 180)), 360)))

\* the same distance over the reals: the least |lon - node + 180 k|
RealNearerNode(lon, node) ==
    LET arcs == {QAbs(QAddInt(QSub(lon, node), 180 * k)) : k \in -3..3}
    IN  CHOOSE d \in arcs : \A other \in arcs : QLe(d, other)

HalfDegree(lon) == (2 * lon.n) % lon.d = 0

\* C19: checkEclipse returns a solar eclipse exactly when the phase is
\* new_moon and the shorter-arc distance from the Sun to the nearer of node
\* and node + 180 is <= 18.5, a lunar eclipse exactly when the phase is
\* full_moon and that distance from the Moon is <= 12.0, and null otherwise;
\* the reported distance is that distance and never exceeds the threshold.
\* On half degrees the distance is the one over the reals.
C19_EclipseKinds ==
    EclReturned =>
        LET in == Val(eclIn)
            out == Val(eclOut)
            dSun == NearerNode(in.sun, in.node)
            dMoon == NearerNode(in.moon, in.node)
            solar == in.phaseType = "new_moon" /\ QLe(dSun, Q(37, 2))
            lunar == in.phaseType = "full_moon" /\ QLe(dMoon, QInt(12))
        IN  /\ IsNull(out) <=> (~solar /\ ~lunar)
            /\ solar => /\ Val(out).type = "solar"
                        /\ QEq(Val(out).distanceToNode, dSun)
                        /\ QLe(Val(out).distanceToNode, Q(37, 2))
            /\ lunar => /\ Val(out).type = "lunar"
                        /\ QEq(Val(out).distanceToNode, dMoon)
                        /\ QLe(Val(out).distanceToNode, QInt(12))
            /\ (HalfDegree(in.sun) /\ HalfDegree(in.moon)
                /\ HalfDegree(in.node))
               => /\ QEq(dSun, RealNearerNode(in.sun, in.node))
                  /\ QEq(dMoon, RealNearerNode(in.moon, in.node))

\* a solar eclipse exactly at the threshold, the Sun 18.5 degrees before
\* the descending node while the Moon is far from both nodes
C19_Witness ==
    /\ EclReturned
    /\ Val(eclIn).phaseType = "new_moon"
    /\ Val(eclIn).sun = Q(323, 2)
    /\ Val(eclIn).moon = Q(237, 2)
    /\ Val(eclIn).node = QInt(0)
    /\ ~IsNull(Val(eclOut))
    /\ Val(Val(eclOut)).type = "solar"
    /\ QEq(Val(Val(eclOut)).distanceToNode, Q(37, 2))

\* the node longitude replaced by node + 180 mod 360
SwappedNode(node) == QRem(Fl(QAddInt(node, 180)), 360)

SameEclipse(a, b) ==
    IF IsNull(a) \/ IsNull(b) THEN IsNull(a) /\ IsNull(b)
    ELSE /\ Val(a).type = Val(b).type
         /\ QEq(Val(a).distanceToNode, Val(b).distanceToNode)

SwappedResult ==
    checkEclipse(Val(eclIn).phaseType,
                 [longitude |-> Val(eclIn).sun],
                 [longitude |-> Val(eclIn).moon],
                 [longitude |-> SwappedNode(Val(eclIn).node)])

\* C20 as stated: for every phase type and every sun, moon and node
\* longitude in [0, 360), checkEclipse gives the same kind or null and the
\* same distanceToNode when the node is replaced by node + 180 mod 360.
C20_NodeSwap ==
    EclReturned => SameEclipse(Val(eclOut), SwappedResult)

Unrounded(a) == QEq(Fl(a), a)

\* both additions of 180, to the node and to the swapped node, are exact
ExactAxis(node) ==
    /\ Unrounded(QAddInt(node, 180))
    /\ Unrounded(QAddInt(SwappedNode(node), 180))

\* C20 amended: the same, for node longitudes to which 180 is added without
\* rounding, before and after the swap.
C20_ExactNodeSwap ==
    (EclReturned /\ ExactAxis(Val(eclIn).node))
    => SameEclipse(Val(eclOut), SwappedResult)

\* a lunar eclipse found at the node itself and, after the swap, at the
\* opposite end of the axis
C20_Witness ==
    /\ EclReturned
    /\ Val(eclIn).phaseType = "full_moon"
    /\ Val(eclIn).moon = QInt(168)
    /\ Val(eclIn).node = QInt(180)
    /\ ExactAxis(Val(eclIn).node)
    /\ ~IsNull(Val(eclOut))
    /\ Val(Val(eclOut)).type = "lunar"
    /\ SameEclipse(Val(eclOut), SwappedResult)

----------------------------------------------------------------------------
(* Claims about the bisection routines called on their own                  *)

\* the iteration count the claim gives each routine
FixedCount(b) ==
    IF "caller" \in DOMAIN b THEN 25
    ELSE IF b.routine = "phase" THEN 40
    ELSE 30

\* oracle samples of one iteration: low and mid for a station, the Sun and
\* the Moon for a phase, one otherwise
SamplesPerIteration(b) ==
    IF "caller" \in DOMAIN b THEN 1
    ELSE IF b.routine = "ingress" THEN 1
    ELSE 2

IterationsCounted ==
    ~IsNull(bis) =>
        LET b == Val(bis)
        IN  /\ b.i <= FixedCount(b)
            /\ nSamples = b.i * SamplesPerIteration(b)
            /\ ~IsNull(b.value) => b.i = FixedCount(b)
            /\ ~IsNull(b.value) <=> pc = "done"

\* C22: each bisection routine performs exactly its fixed number of
\* iterations (25 for void transitions, 30 for stations and ingresses, 40
\* for lunar phases) and then returns, whatever the predicate does on the
\* bracket.
C22_FixedIterations ==
    /\ []IterationsCounted
    /\ (~IsNull(bis)) ~> (pc = "done" /\ Val(bis).i = FixedCount(Val(bis)))

\* a phase bisection that returned although its predicate never changed:
\* every midpoint was "not yet reached"
C22_Witness ==
    /\ pc = "done"
    /\ ~IsNull(bis)
    /\ "routine" \in DOMAIN Val(bis)
    /\ Val(bis).routine = "phase"
    /\ Val(bis).i = 40
    /\ Val(bis).high = Val(bis).jdB
    /\ nSamples = 80

----------------------------------------------------------------------------
(* Claims about the refinement passes of getVoidOfCourseStatus              *)

\* TRUE when some refinement pass finds the target more than 180 degrees
\* away in the Moon's direction of motion; estimatedDays is the estimate
\* the pass starts from
RECURSIVE DiscardedOnSomePass(_, _, _, _, _, _)
DiscardedOnSomePass(iter, estimatedDays, baseTarget, planetSpeed, moonLon,
                    moonSpeed) ==
    IF iter >= 3 THEN FALSE
    ELSE LET target == QRem(QAddInt(QMulInt(estimatedDays, planetSpeed),
                                    baseTarget + 360), 360)
             moveNeeded == MoveNeeded(target, moonLon, moonSpeed)
         IN  \/ QGtInt(moveNeeded, 180)
             \/ DiscardedOnSomePass(iter + 1,
                                    QDivInt(moveNeeded, Abs(moonSpeed)),
                                    baseTarget, planetSpeed, moonLon,
                                    moonSpeed)

\* a case no pass discards, completing in (0, daysToExit] within the sign
KeptCaseCompletes(in) ==
    \E c \in AspectCases(in.planets) :
        LET d == CompletionOf(c, in)
        IN  /\ ~DiscardedOnSomePass(0, QInt(0), c[2], c[1].speed,
                                    in.moonLon, in.moonSpeed)
            /\ ~IsNull(d)
            /\ QGtInt(Val(d), 0)
            /\ QLe(Val(d), ExitDays(in))
            /\ StillInSign(in.moonLon, in.moonSpeed, Val(d))

\* C27: a target whose required travel in the Moon's direction exceeds 180
\* degrees on a refinement pass never contributes a completion time that
\* makes the Moon non-void: a not-void answer always rests on a target that
\* no pass discarded.
C27_DiscardedNeverCounts ==
    (~IsNull(vocOut) /\ vocIn.moonSpeed # 0 /\ ~Val(vocOut).isVoid)
    => KeptCaseCompletes(vocIn)

----------------------------------------------------------------------------
(* Claims about the periods of findVoidPeriods and the samples they rest on *)

\* the call ran its forward scan to the end and returned
ScanReturned == pc = "done" /\ Ran

\* C28: every coarse sample of the forward scan at which the Moon is void
\* lies within some returned period [startTime, endTime], and every coarse
\* sample at which it is not void lies strictly inside no returned period.
C28_SamplesAndPeriods ==
    ScanReturned =>
        \A t \in CoarseSamples :
            IF VoidAt(t)
            THEN \E i \in 1..Len(Returned) :
                    Returned[i].startJd <= t /\ t <= Returned[i].endJd
            ELSE \A i \in 1..Len(Returned) :
                    ~(Returned[i].startJd < t /\ t < Returned[i].endJd)

\* two periods with a non-void coarse sample between them and void coarse
\* samples in both
C28_Witness ==
    /\ ScanReturned
    /\ Len(Returned) >= 2
    /\ \E t, u, v \in CoarseSamples :
          /\ t < u /\ u < v
          /\ VoidAt(t) /\ ~VoidAt(u) /\ VoidAt(v)
          /\ Returned[1].startJd <= t /\ t <= Returned[1].endJd
          /\ Returned[2].startJd <= v /\ v <= Returned[2].endJd

----------------------------------------------------------------------------
(* Claims about the list one call of findIngresses returns *)

\* C30: the records of one findIngresses result are in non-decreasing time
\* order, and toSign of each record is fromSign of the next.
C30_IngressChain ==
    (~IsNull(scan) /\ Val(scan).routine = "ingresses") =>
        \A i \in 1..(Len(Events) - 1) :
            /\ Events[i].julday <= Events[i + 1].julday
            /\ Events[i].toSign = Events[i + 1].fromSign

\* a returned list of three ingresses through three different signs
C30_Witness ==
    /\ ScanDone("ingresses")
    /\ Len(Events) >= 3
    /\ Events[1].toSign = Events[2].fromSign
    /\ Events[2].toSign = Events[3].fromSign
    /\ Events[1].fromSign # Events[2].toSign
    /\ Events[1].julday < Events[3].julday

----------------------------------------------------------------------------
(* Claims about the sign position getPlanetStatus reports *)

\* ((L mod 360) + 360) mod 360
Normalized(longitude) == ((longitude % 360) + 360) % 360

\* C21: for every longitude L, negative ones and ones from 360 up included,
\* the sign index is in 0..11, degreeInSign is in [0, 30), and
\* signIndex * 30 + degreeInSign is ((L mod 360) + 360) mod 360.
C21_SignPosition ==
    ~IsNull(signOut) =>
        LET out == Val(signOut)
        IN  /\ out.signIndex \in 0..11
            /\ 0 <= out.degreeInSign /\ out.degreeInSign < 30
            /\ out.signIndex * 30 + out.degreeInSign
                  = Normalized(Val(signIn).longitude)

----------------------------------------------------------------------------
(* Claims about the end of a scan *)

\* C23: every call of a scanner ends, with a result or an error, after a
\* bounded number of samples, whatever range and step the caller passes.
C23_ScanEnds == (~IsNull(scan)) ~> (pc = "done")

----------------------------------------------------------------------------
(* Claims about a failing ephemeris *)

\* the samples the call has asked for so far
Asked == {oracle[c] : c \in DOMAIN oracle}

\* C24: when the ephemeris fails for a sample, the detector call that asked
\* for it fails with that error; no list is returned after a failed sample.
C24_FailurePropagates ==
    (~IsNull(scan) /\ FailedPos \in Asked) => pc # "done"

----------------------------------------------------------------------------
(* Claims about detectors running together *)

----------------------------------------------------------------------------
(* Claims about the push-notify batch *)

\* how often a tag was broadcast
TimesBroadcast(tag) ==
    Cardinality({i \in 1..Len(Val(push).broadcast) :
                    Val(push).broadcast[i] = tag})

\* C26: for a Mercury station_retrograde event of the schedule, once the
\* batch has run within 30 minutes of the event time, the notification
\* "retrograde started" has been broadcast for it, exactly once, at whatever
\* time of day the station falls.
C26_StartBroadcast ==
    (/\ ~IsNull(push)
     /\ Val(push).ev.planet = "mercury"
     /\ Val(push).ev.type = "station_retrograde"
     /\ Val(push).ranInWindow)
    => TimesBroadcast(StartTag(Val(push).ev)) = 1

\* the void of current.json
TheVoid == Val(push).upcomingVoids[1]

\* the void starts in the JST night, 0:00 to 7:59
StartsAtNight(v) == JstHour(v.startUtc) \in 0..7

\* 9:00 JST of the morning the void starts in
NineThatMorning(v) == JstClock(v.startUtc, 0, 9)

\* C31: a run of the batch at a JST hour from 0 to 7 broadcasts nothing and
\* leaves the sent log and the subscriptions as they were.
C31_NightRunChangesNothing ==
    [][(~IsNull(push) /\ JstHour(Val(push).now) \in 0..7)
         => /\ Val(push').broadcast = Val(push).broadcast
            /\ Val(push').sentLog = Val(push).sentLog
            /\ Val(push').subscriptions = Val(push).subscriptions]_vars

\* the batch ran at night although a notification was due and somebody
\* would have received it
C31_Witness ==
    /\ ~IsNull(push)
    /\ Val(push).ranInWindow
    /\ JstHour(Val(push).ev.utc) = 3
    /\ Val(push).ev.planet = "mercury"
    /\ Val(push).ev.type = "station_retrograde"
    /\ Val(push).broadcast = <<>>

\* C32: whatever the runs of the batch, no tag is broadcast twice.
C32_AtMostOnce ==
    ~IsNull(push) =>
        \A i, j \in 1..Len(Val(push).broadcast) :
            Val(push).broadcast[i] = Val(push).broadcast[j] => i = j

\* a tag was broadcast, and the batch has since run again within its window
C32_Witness ==
    /\ ~IsNull(push)
    /\ Val(push).ev.planet = "mercury"
    /\ Val(push).ev.type = "station_retrograde"
    /\ Val(push).broadcast = <<StartTag(Val(push).ev)>>
    /\ Val(push).now = Val(push).ev.utc + NotifyWindow
    /\ StartTag(Val(push).ev) \in DOMAIN Val(push).sentLog

\* C33: a void that starts in the JST night and has ended before 9:00 JST of
\* that morning is never announced, whenever the batch runs.
C33_NightVoidSilent ==
    (/\ ~IsNull(push)
     /\ StartsAtNight(TheVoid)
     /\ TheVoid.endUtc < NineThatMorning(TheVoid))
    => TimesBroadcast(VoidTag(TheVoid)) = 0

\* C34: a void of 3 hours or more that starts in the JST night and lasts
\* until 9:00 JST or beyond is given 23:00 JST of the day before as its send
\* time, and a run within 30 minutes of that time announces it.
C34_LongNightVoidAnnounced ==
    (/\ ~IsNull(push)
     /\ TheVoid.endUtc - TheVoid.startUtc >= VoidMinHours * MinutesPerHour
     /\ StartsAtNight(TheVoid)
     /\ TheVoid.endUtc >= NineThatMorning(TheVoid))
    => /\ sendAtMs(TheVoid) = Some(JstClock(TheVoid.startUtc, -1, 23))
       /\ Val(push).ranLate => TimesBroadcast(VoidTag(TheVoid)) = 1

\* C35: under the hourly cron and with a subscriber, a void that has a send
\* time is never broadcast twice, and it has been broadcast once the last run
\* that could announce it, the one 30 minutes after its send time or the one
\* before, is over.
C35_EveryVoidBroadcast ==
    ~IsNull(push) =>
        /\ TimesBroadcast(VoidTag(TheVoid)) <= 1
        /\ (/\ Val(push).subscriptions > 0
            /\ ~IsNull(sendAtMs(TheVoid))
            /\ Val(push).now >= Val(sendAtMs(TheVoid)) + NotifyWindow)
           => TimesBroadcast(VoidTag(TheVoid)) = 1

\* C36: a send time given to a void lies in the JST hours 8 to 23 and is
\* not after the start of the void.
C36_SendTimeSendable ==
    (~IsNull(push) /\ ~IsNull(sendAtMs(TheVoid)))
    => /\ JstHour(Val(sendAtMs(TheVoid))) \in 8..23
       /\ Val(sendAtMs(TheVoid)) <= TheVoid.startUtc

\* a void that starts at 8:00 JST was announced at 8:00 JST
C36_Witness ==
    /\ ~IsNull(push)
    /\ sendAtMs(TheVoid) = Some(TheVoid.startUtc)
    /\ Val(push).broadcast = <<VoidTag(TheVoid)>>

----------------------------------------------------------------------------
(* Claims about the subscription server *)

\* the endpoint has an entry in the store
Stored(endpoint, store) ==
    \E k \in 1..Len(store) : store[k].endpoint = endpoint

\* C37: whatever the interleaving of the server's requests with a broadcast
\* of the batch, an endpoint POST /subscribe has accepted is in the store
\* until it is unsubscribed or a send reports it expired.
C37_AcceptedStays ==
    ~IsNull(push) =>
        \A endpoint \in Val(push).accepted : Stored(endpoint, Val(push).store)

\* C38: the store never holds two entries with the same endpoint; a
\* subscribe of a stored endpoint and a subscribe without an endpoint leave
\* the store as it was, the latter answered 400; after an unsubscribe the
\* endpoint is not in the store.
C38_OneEntryPerEndpoint ==
    ~IsNull(push) =>
        /\ \A j, k \in 1..Len(Val(push).store) :
              Val(push).store[j].endpoint = Val(push).store[k].endpoint
                  => j = k
        /\ (~IsNull(Val(push).last) /\ ~IsNull(Val(Val(push).last).body)) =>
              LET r == Val(Val(push).last)
                  endpoint == Val(r.body).endpoint
              IN  /\ (r.route = "subscribe" /\ Stored(endpoint, r.before))
                        => Val(push).store = r.before
                  /\ (r.route = "subscribe" /\ ~Truthy(endpoint))
                        => r.status = 400 /\ Val(push).store = r.before
                  /\ (r.route = "unsubscribe" /\ r.status = 200)
                        => ~Stored(endpoint, Val(push).store)

====
